---- MODULE Spec2Model ----
(***************************************************************************)
(* DealersEdge: dealer-positioning analytics and buy-only option guidance. *)
(*                                                                         *)
(* The analytics core is a pipeline of pure functions.  Each function is   *)
(* modelled as an operator computed the way the Python code computes it,   *)
(* and is exercised by a specification whose Init draws the call's         *)
(* arguments from bounded sets and whose action performs the call.         *)
(*                                                                         *)
(* Fixed-point conventions (all numbers are integers):                     *)
(*   prices, strikes, ATR ........ cents                                   *)
(*   mean_acf1 / lag1_acf ........ 1e-4          (round(x, 4))             *)
(*   pct_amplified / dampened .... 0.1 percent   (round(x, 1))             *)
(*   reynolds_number ............. 1e-4          (round(x, 4))             *)
(*   beta, iv_hv_ratio ........... 1e-2                                    *)
(*   edge_pct (Kelly) ............ 1e-3 percent                            *)
(*   Kelly size .................. 1e-2 percent                            *)
(***************************************************************************)
EXTENDS Integers, Sequences, FiniteSets, TLC

VARIABLES pc, args, ret

vars == <<pc, args, ret>>

\* The value of ret before the call returns.
NoResult == [none |-> TRUE]

\* Python None for optional numbers (flip_point, channel bounds).
None == -1

----------------------------------------------------------------------------
(* Arithmetic helpers                                                      *)

Abs(x) == IF x < 0 THEN -x ELSE x

Max(a, b) == IF a >= b THEN a ELSE b

Min(a, b) == IF a <= b THEN a ELSE b

\* Python round(): nearest integer to n/d (d > 0), ties to the even one.
RoundHalfEven(n, d) ==
    LET q == n \div d
        r == n % d
    IN  IF 2 * r < d THEN q
        ELSE IF 2 * r > d THEN q + 1
        ELSE IF q % 2 = 0 THEN q ELSE q + 1

\* Rational numbers as records [n, d] with d > 0; d = 0 stands for infinity.
Rat(n, d) == [n |-> n, d |-> d]

RatGt(a, b) == a.n * b.d > b.n * a.d

RatLt(a, b) == a.n * b.d < b.n * a.d

RatMax(a, b) == IF RatGt(b, a) THEN b ELSE a

----------------------------------------------------------------------------
(* directional_engine._kelly_size                                          *)

\* The vol-regime multiplier, in tenths.
RegimeScaleAlwaysFair(iv_hv_ratio, vrp_context) == 10

RegimeScale(iv_hv_ratio, vrp_context) ==
    IF iv_hv_ratio > 150 \/ vrp_context = "HIGH_PREMIUM" THEN 7
    ELSE IF iv_hv_ratio > 130 /\ vrp_context = "MODERATE_PREMIUM" THEN 8
    ELSE IF iv_hv_ratio < 90 \/ vrp_context = "DISCOUNT" THEN 12
    ELSE 10

\* round(x, 1) of x = n/d tenths computed in binary floating point: off a
\* decimal tie the nearest tenth; on an exact tie (x.x5) the double nearest
\* to the product lies on either side, so either neighbour can be returned.
RoundTenths(n, d) ==
    IF 2 * (n % d) = d THEN {n \div d, n \div d + 1} ELSE {RoundHalfEven(n, d)}

\* A version that forgets the final floor/cap.
KellySizesNoClamp(edge_pct, win_prob, iv_hv_ratio, vrp_context) ==
    IF edge_pct <= 0 \/ win_prob <= 0 THEN {0}
    ELSE LET b == Max(edge_pct, 50000)
             p == Min(win_prob, 90)
             num == Max(0, b * p - (100 - p) * 100000)
         IN  {10 * t : t \in RoundTenths(num * RegimeScale(iv_hv_ratio, vrp_context), 2 * b)}

\* The sizes _kelly_size can return (a single value off rounding ties).
\* edge_pct in 1e-3 percent, win_prob in percent; result in 1e-2 percent.
\*   b = max(edge/100, 0.5) = bn/100000, p = min(win/100, 0.9) = pn/100
\*   kelly_full = (b*p - q)/b = (bn*pn - (100-pn)*100000) / (100*bn)
\*   kelly_half = max(0, kelly_full/2)
\*   final = round(kelly_half * scale * 100, 1), clamped to [0.25, 5.0]
KellySizes(edge_pct, win_prob, iv_hv_ratio, vrp_context) ==
    IF edge_pct <= 0 \/ win_prob <= 0 THEN {0}
    ELSE LET b == Max(edge_pct, 50000)
             p == Min(win_prob, 90)
             num == Max(0, b * p - (100 - p) * 100000)
         IN  {Max(25, Min(500, 10 * t)) :
                 t \in RoundTenths(num * RegimeScale(iv_hv_ratio, vrp_context), 2 * b)}

----------------------------------------------------------------------------
(* acf_engine.classify_regime, technicals._classify_trend                  *)

\* lag-1 autocorrelation (1e-4) -> regime; the boundaries are strict.
classify_regime(acf_lag1) ==
    IF acf_lag1 < -500 THEN "LONG_GAMMA"
    ELSE IF acf_lag1 > 500 THEN "SHORT_GAMMA"
    ELSE "NEUTRAL"

RsLabels == {"STRONG_LEADER", "OUTPERFORMING", "IN_LINE", "UNDERPERFORMING", "STRONG_LAGGARD"}

\* trend_score from the MA alignment (-3..3) and the relative-strength label.
trend_score(alignment, rs_label) ==
    IF alignment >= 2 /\ rs_label \in {"STRONG_LEADER", "OUTPERFORMING"} THEN 2
    ELSE IF alignment >= 2 THEN 1
    ELSE IF alignment <= -2 /\ rs_label \in {"STRONG_LAGGARD", "UNDERPERFORMING"} THEN -2
    ELSE IF alignment <= -2 THEN -1
    ELSE 0

tech_bias(score) ==
    IF score >= 2 THEN "BULLISH"
    ELSE IF score >= 1 THEN "LEAN_BULLISH"
    ELSE IF score <= -2 THEN "BEARISH"
    ELSE IF score <= -1 THEN "LEAN_BEARISH"
    ELSE "NEUTRAL"

----------------------------------------------------------------------------
(* directional_engine.classify_thesis: the thesis decision tree            *)

Theses == {"MOMENTUM_BREAKOUT", "MOMENTUM_EARLY", "CONFLICTED_PIN",
           "MOMENTUM_TREND", "FADE_MOVES", "FADE_MILD", "NEUTRAL"}

MomentumTheses == {"MOMENTUM_BREAKOUT", "MOMENTUM_EARLY", "MOMENTUM_TREND"}

FadeTheses == {"FADE_MOVES", "FADE_MILD"}

\* beta_adj = 1/max(beta, 0.3); re_gamma_adj = re_gamma * beta_adj, as a
\* rational: (re/10^4) / (max(beta,30)/100) = re / (100 * max(beta,30)).
re_gamma_adj(re_gamma, beta) == Rat(re_gamma, 100 * Max(beta, 30))

\* An effective ratio without the entropy forcing.
EffectiveReNoForcing(re_gamma, re_regime, beta, entropy_regime) == re_gamma_adj(re_gamma, beta)

\* Entropy forcing: CRITICAL entropy with TRANSITIONAL flow counts as turbulent.
effective_re(re_gamma, re_regime, beta, entropy_regime) ==
    IF entropy_regime = "CRITICAL" /\ re_regime = "TRANSITIONAL"
    THEN RatMax(re_gamma_adj(re_gamma, beta), Rat(105, 100))
    ELSE re_gamma_adj(re_gamma, beta)

acf_net_momentum(pct_amp, pct_damp, acf1, sei_regime) ==
    \/ (pct_amp > pct_damp /\ (pct_amp > 130 \/ acf1 > 500))
    \/ (sei_regime \in {"HIGH_EXCITATION", "MODERATE_EXCITATION"} /\ acf1 > 0)

\* A tree that consults the price-action (ACF) rules before the flow rules.
ThesisTreeAcfFirst(eff, momentum, pct_amp, pct_damp, acf_regime, acf1) ==
    IF acf_regime = "SHORT_GAMMA" \/ acf1 > 500 THEN "MOMENTUM_TREND"
    ELSE IF acf_regime = "LONG_GAMMA" /\ acf1 < -1000 THEN "FADE_MOVES"
    ELSE IF acf_regime = "LONG_GAMMA" THEN "FADE_MILD"
    ELSE IF RatGt(eff, Rat(1, 1)) /\ momentum THEN "MOMENTUM_BREAKOUT"
    ELSE IF RatGt(eff, Rat(1, 1)) THEN "MOMENTUM_EARLY"
    ELSE IF pct_amp > pct_damp /\ pct_amp > 130 /\ RatLt(eff, Rat(7, 10)) THEN "CONFLICTED_PIN"
    ELSE "NEUTRAL"

ThesisTree(eff, momentum, pct_amp, pct_damp, acf_regime, acf1) ==
    IF RatGt(eff, Rat(1, 1)) /\ momentum THEN "MOMENTUM_BREAKOUT"
    ELSE IF RatGt(eff, Rat(1, 1)) THEN "MOMENTUM_EARLY"
    ELSE IF pct_amp > pct_damp /\ pct_amp > 130 /\ RatLt(eff, Rat(7, 10)) THEN "CONFLICTED_PIN"
    ELSE IF acf_regime = "SHORT_GAMMA" \/ acf1 > 500 THEN "MOMENTUM_TREND"
    ELSE IF acf_regime = "LONG_GAMMA" /\ acf1 < -1000 THEN "FADE_MOVES"
    ELSE IF acf_regime = "LONG_GAMMA" THEN "FADE_MILD"
    ELSE "NEUTRAL"

----------------------------------------------------------------------------
(* directional_engine._compute_bias and the technicals overlay             *)

\* A resolver that ignores the technical signals.
ResolveDirectionGexOnly(gex_dir, tech_score, ma_alignment) == gex_dir

\* _compute_bias._resolve_direction
ResolveDirection(gex_dir, tech_score, ma_alignment) ==
    IF Abs(tech_score) >= 2
    THEN LET tech_dir == IF tech_score >= 2 THEN "BULLISH" ELSE "BEARISH"
         IN  IF tech_dir # gex_dir THEN tech_dir ELSE gex_dir
    ELSE IF Abs(ma_alignment) >= 3
    THEN LET tech_dir == IF ma_alignment >= 3 THEN "BULLISH" ELSE "BEARISH"
         IN  IF tech_dir # gex_dir THEN tech_dir ELSE gex_dir
    ELSE gex_dir

\* A positioning direction that reads a spot on the flip point as bullish.
GexDirectionAtFlipBullish(spot, flip_point) ==
    IF spot >= flip_point THEN "BULLISH" ELSE "BEARISH"

\* gex_dir of a momentum thesis.
GexDirection(spot, flip_point) ==
    IF spot > flip_point THEN "BULLISH" ELSE "BEARISH"

\* ch_pos is in 1e-3 (None when there is no channel); charm in dollars.
ComputeBias(thesis, spot, flip_point, max_pain, ch_pos, charm, dte, ma_alignment, tech_score) ==
    IF thesis \in MomentumTheses
    THEN LET gex_dir == GexDirection(spot, flip_point)
             direction == ResolveDirection(gex_dir, tech_score, ma_alignment)
         IN  [direction |-> direction,
              action |-> IF direction = "BULLISH" THEN "BUY CALLS" ELSE "BUY PUTS",
              style |-> "RIDE MOMENTUM",
              strength |-> IF thesis = "MOMENTUM_BREAKOUT" THEN "STRONG" ELSE "MODERATE"]
    ELSE IF thesis \in FadeTheses
    THEN LET direction ==
                 IF Abs(tech_score) >= 2 \/ Abs(ma_alignment) >= 3
                 THEN (IF tech_score >= 1 \/ ma_alignment >= 2 THEN "BULLISH" ELSE "BEARISH")
                 ELSE (IF spot < max_pain THEN "BULLISH" ELSE "BEARISH")
         IN  [direction |-> direction,
              action |-> "BUY CALLS on dips, BUY PUTS on rips",
              style |-> "FADE & MEAN-REVERT",
              strength |-> IF thesis = "FADE_MOVES" THEN "STRONG" ELSE "MODERATE"]
    ELSE IF thesis = "CONFLICTED_PIN"
    THEN [direction |-> "NEUTRAL", action |-> "BUY toward walls, SELL at walls",
          style |-> "PIN & FADE AT WALLS", strength |-> "MODERATE"]
    ELSE IF ch_pos # None /\ ch_pos < 250
    THEN [direction |-> "BULLISH", action |-> "BUY CALLS near floor",
          style |-> "CHANNEL BOUNCE", strength |-> "WEAK"]
    ELSE IF ch_pos # None /\ ch_pos > 750
    THEN [direction |-> "BEARISH", action |-> "BUY PUTS near ceiling",
          style |-> "CHANNEL FADE", strength |-> "WEAK"]
    ELSE IF dte <= 5 /\ charm < -10000
    THEN [direction |-> IF spot > max_pain THEN "BEARISH" ELSE "BULLISH",
          action |-> IF spot > max_pain THEN "BUY PUTS - charm drift"
                     ELSE "BUY CALLS - charm drift",
          style |-> "DRIFT TOWARD MAX PAIN", strength |-> "MODERATE"]
    ELSE [direction |-> "NEUTRAL", action |-> "WAIT or small lottery",
          style |-> "NO CLEAR EDGE", strength |-> "NONE"]

\* An overlay that drops an opposed bias straight to WEAK.
TechOverlayTwoNotches(bias, tech_bias_dir) ==
    LET bullish_tech == tech_bias_dir \in {"BULLISH", "LEAN_BULLISH"}
        bearish_tech == tech_bias_dir \in {"BEARISH", "LEAN_BEARISH"}
        tech_confirms == \/ (bias.direction = "BULLISH" /\ bullish_tech)
                         \/ (bias.direction = "BEARISH" /\ bearish_tech)
        tech_conflicts == /\ ~tech_confirms
                          /\ \/ (bias.direction = "BULLISH" /\ bearish_tech)
                             \/ (bias.direction = "BEARISH" /\ bullish_tech)
        strength == IF tech_confirms /\ bias.strength = "MODERATE" THEN "STRONG"
                    ELSE IF tech_conflicts /\ bias.strength \in {"STRONG", "MODERATE"}
                    THEN "WEAK"
                    ELSE bias.strength
    IN  [bias EXCEPT !.strength = strength]

\* classify_thesis: technicals upgrade or downgrade the bias strength.
TechOverlay(bias, tech_bias_dir) ==
    LET bullish_tech == tech_bias_dir \in {"BULLISH", "LEAN_BULLISH"}
        bearish_tech == tech_bias_dir \in {"BEARISH", "LEAN_BEARISH"}
        tech_confirms == \/ (bias.direction = "BULLISH" /\ bullish_tech)
                         \/ (bias.direction = "BEARISH" /\ bearish_tech)
        tech_conflicts == /\ ~tech_confirms
                          /\ \/ (bias.direction = "BULLISH" /\ bearish_tech)
                             \/ (bias.direction = "BEARISH" /\ bullish_tech)
        strength == IF tech_confirms /\ bias.strength = "MODERATE" THEN "STRONG"
                    ELSE IF tech_conflicts /\ bias.strength = "STRONG" THEN "MODERATE"
                    ELSE IF tech_conflicts /\ bias.strength = "MODERATE" THEN "WEAK"
                    ELSE bias.strength
    IN  [bias EXCEPT !.strength = strength]

----------------------------------------------------------------------------
(* directional_engine._collision_probability                               *)

\* floor(1000 * sqrt(dte)) for dte = 1 .. 61.
SqrtMilliTable == <<
    1000, 1414, 1732, 2000, 2236, 2449, 2645, 2828, 3000, 3162,
    3316, 3464, 3605, 3741, 3872, 4000, 4123, 4242, 4358, 4472,
    4582, 4690, 4795, 4898, 5000, 5099, 5196, 5291, 5385, 5477,
    5567, 5656, 5744, 5830, 5916, 6000, 6082, 6164, 6244, 6324,
    6403, 6480, 6557, 6633, 6708, 6782, 6855, 6928, 7000, 7071,
    7141, 7211, 7280, 7348, 7416, 7483, 7549, 7615, 7681, 7745,
    7810 >>

SqrtMilli(dte) == SqrtMilliTable[dte]

\* A probability whose guard comes after the at-spot test.
CollisionProbabilityGuardLast(spot, level, atr_dollar, dte) ==
    IF Abs(spot - level) < 1 THEN 9500
    ELSE IF atr_dollar <= 0 \/ dte <= 0 \/ level <= 0 THEN 5000
    ELSE Min(9500, Max(500, (atr_dollar * SqrtMilli(dte) * 5) \div Abs(spot - level)))

\* Probability (1e-4) that price reaches level within dte, from the
\* ATR * sqrt(DTE) envelope.  spot, level, atr_dollar in cents.
CollisionProbability(spot, level, atr_dollar, dte) ==
    IF atr_dollar <= 0 \/ dte <= 0 \/ level <= 0 THEN 5000
    ELSE LET distance == Abs(spot - level)
         IN  IF distance < 1 THEN 9500
             ELSE Min(9500, Max(500, (atr_dollar * SqrtMilli(dte) * 5) \div distance))

\* round(100 * _collision_probability(...), 1), in 1e-1 %.
CollisionPercent(spot, level, atr_dollar, dte) ==
    IF atr_dollar <= 0 \/ dte <= 0 \/ level <= 0 THEN 500
    ELSE LET distance == Abs(spot - level)
         IN  IF distance < 1 THEN 950
             ELSE Min(950, Max(50, RoundHalfEven(atr_dollar * SqrtMilli(dte), 2 * distance)))

----------------------------------------------------------------------------
(* directional_engine._estimate_wall_break_probability                     *)

\* (1 + log1p(p / (1 - p))) / 2 in 1e-5, for p = 5% .. 95% (index p - 4).
CollisionAdjTable == <<
    52565, 53094, 53629, 54169, 54716, 55268, 55827, 56392,
    56963, 57541, 58126, 58718, 59316, 59923, 60536, 61157,
    61786, 62423, 63068, 63722, 64384, 65055, 65736, 66425,
    67125, 67834, 68553, 69283, 70024, 70776, 71539, 72314,
    73102, 73902, 74715, 75541, 76382, 77236, 78106, 78991,
    79892, 80809, 81744, 82696, 83667, 84657, 85667, 86698,
    87751, 88826, 89925, 91049, 92199, 93375, 94580, 95815,
    97080, 98379, 99713, 101083, 102491, 103940, 105433, 106972,
    108559, 110199, 111894, 113648, 115467, 117354, 119315, 121356,
    123484, 125706, 128032, 130472, 133037, 135740, 138598, 141629,
    144856, 148306, 152011, 156013, 160364, 165129, 170397, 176286,
    182963, 190671, 199787 >>

\* collision_adj in 1e-5 for p_nearest in 1e-4, 0.05 < p < 0.95, linearly
\* interpolated between the tabulated percent points.
CollisionAdj(p_nearest) ==
    LET k == (p_nearest \div 100) - 4
        f == p_nearest % 100
    IN  CollisionAdjTable[k]
        + ((CollisionAdjTable[k + 1] - CollisionAdjTable[k]) * f) \div 100

\* Additive bonuses of the wall-break estimate, before the collision
\* multiplier: base 15 + ratio tier + gamma asymmetry + ACF tier + phase +
\* self-excitation + entropy.
WallBreakBonuses(re_adj, acf1, phase_regime, sei, entropy_regime, gex_regime) ==
    15
    + (IF RatGt(re_adj, Rat(2, 1)) THEN 45
       ELSE IF RatGt(re_adj, Rat(1, 1)) THEN 30
       ELSE IF RatGt(re_adj, Rat(7, 10)) THEN 15
       ELSE IF RatGt(re_adj, Rat(3, 10)) THEN 5 ELSE 0)
    + (IF gex_regime = "POSITIVE_GAMMA" THEN -12 ELSE 5)
    + (IF acf1 > 1000 THEN 10
       ELSE IF acf1 > 500 THEN 5
       ELSE IF acf1 < -1500 THEN -10
       ELSE IF acf1 < -500 THEN -5 ELSE 0)
    + (IF phase_regime = "TURBULENT" THEN 10
       ELSE IF phase_regime = "APPROACHING" THEN 5 ELSE 0)
    + (IF sei > 150000 THEN 8 ELSE IF sei > 80000 THEN 4 ELSE 0)
    + (IF entropy_regime = "CRITICAL" THEN 10
       ELSE IF entropy_regime = "APPROACHING" THEN 5 ELSE 0)

\* A clamp that forgets the lower and upper bound.
ClampProbNone(prob) == prob

\* prob = max(5, min(95, prob)), prob in 1e-5 percent.
ClampProb(prob) == Max(500000, Min(9500000, prob))

\* A confidence by majority alone, whichever signals form it.
WallBreakConfidenceMajority(re_says, acf_says, sei_says) ==
    LET agree_break == Cardinality({i \in 1..3 : <<re_says, acf_says, sei_says>>[i] = "BREAK"})
    IN  IF agree_break \in {0, 3} THEN "HIGH"
        ELSE IF agree_break = 2 THEN "MEDIUM"
        ELSE "LOW"

\* The confidence from the three signals; Reynolds leads.
WallBreakConfidence(re_says, acf_says, sei_says) ==
    LET agree_break == Cardinality({i \in 1..3 : <<re_says, acf_says, sei_says>>[i] = "BREAK"})
        agree_hold == 3 - agree_break
    IN  IF agree_break >= 2 /\ re_says = "BREAK" THEN "HIGH"
        ELSE IF agree_hold >= 2 /\ re_says = "HOLD" THEN "HIGH"
        ELSE IF re_says = "BREAK" THEN "MEDIUM"
        ELSE IF acf_says = "BREAK" \/ sei_says = "BREAK" THEN "LOW"
        ELSE "HIGH"

\* sei in 1e-3, spot / strikes / atr_dollar in cents, the walls' collision
\* probabilities in 1e-1 %.
EstimateWallBreakProbability(re_gamma, acf1, pct_amp, pct_damp, phase_regime, beta, atr_dollar, dte, call_wall_strike, put_wall_strike, spot, sei, entropy_regime, gex_regime) ==
    LET re_adj == re_gamma_adj(re_gamma, beta)
        bonuses == WallBreakBonuses(re_adj, acf1, phase_regime, sei,
                                    entropy_regime, gex_regime)
        p_cw == IF call_wall_strike > 0 /\ spot > 0
                THEN CollisionProbability(spot, call_wall_strike, atr_dollar, dte)
                ELSE 5000
        p_pw == IF put_wall_strike > 0 /\ spot > 0
                THEN CollisionProbability(spot, put_wall_strike, atr_dollar, dte)
                ELSE 5000
        p_nearest == Max(p_cw, p_pw)
        scaled == IF p_nearest > 500 /\ p_nearest < 9500
                  THEN bonuses * CollisionAdj(p_nearest)
                  ELSE bonuses * 100000
        prob == ClampProb(scaled)
        re_says == IF RatGt(re_adj, Rat(1, 1)) THEN "BREAK" ELSE "HOLD"
        acf_says == IF (pct_amp > pct_damp /\ acf1 > 0) \/ acf1 > 1000
                    THEN "BREAK" ELSE "HOLD"
        sei_says == IF sei > 150000 THEN "BREAK" ELSE "HOLD"
        confidence == WallBreakConfidence(re_says, acf_says, sei_says)
    IN  [probability |-> RoundHalfEven(prob, 100000),
         confidence |-> confidence,
         re_says |-> re_says, acf_says |-> acf_says, sei_says |-> sei_says,
         gamma_asymmetry |-> IF gex_regime = "POSITIVE_GAMMA" THEN -12 ELSE 5,
         collision_prob_call_wall |->
             IF call_wall_strike > 0 /\ spot > 0
             THEN CollisionPercent(spot, call_wall_strike, atr_dollar, dte) ELSE 500,
         collision_prob_put_wall |->
             IF put_wall_strike > 0 /\ spot > 0
             THEN CollisionPercent(spot, put_wall_strike, atr_dollar, dte) ELSE 500]

----------------------------------------------------------------------------
(* gamma_channel.channel_strategy                                          *)

\* A strategy that waits in mid-channel instead of playing the range.
ChannelStrategyWaitMidChannel(channel, regime, reynolds_regime, re_gamma) ==
    IF channel.floor \in {None, 0} \/ channel.ceiling \in {None, 0}
       \/ channel.width_pct \in {None, 0}
    THEN [strategy |-> "NO_CHANNEL", edge_type |-> "NEUTRAL"]
    ELSE LET pos == channel.channel_position
         IN  IF /\ regime \in {"POSITIVE_GAMMA", "LONG_GAMMA"}
                /\ (reynolds_regime = "LAMINAR" \/ re_gamma < 7000)
                /\ pos # None /\ (pos < 250 \/ pos > 750)
             THEN [strategy |-> IF pos < 250 THEN "GEX_FLOOR_BOUNCE" ELSE "GEX_CEILING_FADE",
                   edge_type |-> "WITH_DEALER"]
             ELSE IF reynolds_regime = "TURBULENT" \/ re_gamma > 10000
             THEN [strategy |-> "BREAKOUT_CHANNEL", edge_type |-> "AGAINST_DEALER"]
             ELSE IF reynolds_regime = "TRANSITIONAL"
             THEN [strategy |-> "TRANSITION_WATCH", edge_type |-> "TRANSITIONAL"]
             ELSE [strategy |-> "WAIT", edge_type |-> "NEUTRAL"]

\* channel = [floor, ceiling, channel_position, width_pct]; re_gamma in 1e-4.
channel_strategy(channel, regime, reynolds_regime, re_gamma) ==
    IF channel.floor \in {None, 0} \/ channel.ceiling \in {None, 0}
       \/ channel.width_pct \in {None, 0}
    THEN [strategy |-> "NO_CHANNEL", edge_type |-> "NEUTRAL"]
    ELSE LET pos == channel.channel_position
             is_long_gamma == regime \in {"POSITIVE_GAMMA", "LONG_GAMMA"}
             is_laminar == reynolds_regime = "LAMINAR" \/ re_gamma < 7000
         IN  IF is_long_gamma /\ is_laminar
             THEN [strategy |-> IF pos # None /\ pos < 250 THEN "GEX_FLOOR_BOUNCE"
                                ELSE IF pos # None /\ pos > 750 THEN "GEX_CEILING_FADE"
                                ELSE "CHANNEL_RANGE",
                   edge_type |-> "WITH_DEALER"]
             ELSE IF reynolds_regime = "TURBULENT" \/ re_gamma > 10000
             THEN [strategy |-> "BREAKOUT_CHANNEL", edge_type |-> "AGAINST_DEALER"]
             ELSE IF reynolds_regime = "TRANSITIONAL"
             THEN [strategy |-> "TRANSITION_WATCH", edge_type |-> "TRANSITIONAL"]
             ELSE [strategy |-> "WAIT", edge_type |-> "NEUTRAL"]

----------------------------------------------------------------------------
(* vol_analysis._compute_iv_vs_hv buckets and main.dealer_map VRP context  *)

\* ratio in 1e-2.
IvContext(ratio) ==
    IF ratio < 80 THEN "CHEAP"
    ELSE IF ratio < 95 THEN "SLIGHT_DISCOUNT"
    ELSE IF ratio < 110 THEN "FAIR"
    ELSE IF ratio < 130 THEN "SLIGHT_PREMIUM"
    ELSE IF ratio < 160 THEN "EXPENSIVE"
    ELSE "VERY_EXPENSIVE"

VrpContext(ratio) ==
    IF ratio > 160 THEN "HIGH_PREMIUM"
    ELSE IF ratio > 130 THEN "MODERATE_PREMIUM"
    ELSE IF ratio > 110 THEN "SMALL_PREMIUM"
    ELSE IF ratio > 90 THEN "FAIR"
    ELSE "DISCOUNT"

----------------------------------------------------------------------------
(* directional_engine strike helpers; prices in milli-cents where noted    *)

\* Strike increment of spot's price tier, in cents.
StrikeIncrement(spot) ==
    IF spot > 10000 THEN 500
    ELSE IF spot > 5000 THEN 250
    ELSE IF spot > 2000 THEN 100
    ELSE 50

\* _round_strike: price in milli-cents, result in cents.
RoundStrike(price, spot) ==
    RoundHalfEven(price, 1000 * StrikeIncrement(spot)) * StrikeIncrement(spot)

\* _atr_max_move: atr_dollar * sqrt(dte) * mult_n/mult_d, in milli-cents.
AtrMaxMove(atr_dollar, dte, mult_n, mult_d) ==
    IF atr_dollar <= 0 \/ dte <= 0 THEN 0
    ELSE (atr_dollar * SqrtMilli(dte) * mult_n) \div mult_d

\* _clamp_strike: desired in milli-cents, result in milli-cents.
ClampStrike(desired, spot, atr_dollar, dte, is_call) ==
    IF atr_dollar <= 0 \/ dte <= 0 THEN desired
    ELSE LET max_move == AtrMaxMove(atr_dollar, dte, 3, 2)
         IN  IF is_call
             THEN Min(desired, 1000 * RoundStrike(1000 * spot + max_move, spot))
             ELSE Max(desired, 1000 * RoundStrike(1000 * spot - max_move, spot))

\* _clamp_target: target in milli-cents, result in milli-cents.
ClampTarget(target_price, spot, atr_dollar, dte) ==
    IF atr_dollar <= 0 \/ dte <= 0 THEN target_price
    ELSE LET max_move == AtrMaxMove(atr_dollar, dte, 2, 1)
         IN  Max(1000 * spot - max_move, Min(1000 * spot + max_move, target_price))

----------------------------------------------------------------------------
(* directional_engine._build_positions                                     *)

\* One entry of the positions list.  strike in cents; kelly_size the sizes
\* (1e-2 percent) _kelly_size can return, {None} for entries sized by a fixed
\* text.
Position(type, edge_type, action, option_type, strike, kelly_size, confidence) ==
    [type |-> type, edge_type |-> edge_type, action |-> action,
     option_type |-> option_type, strike |-> strike,
     kelly_size |-> kelly_size, confidence |-> confidence]

\* Strike offset in 1e-3 of spot, by IV context.
StrikeOffset(iv_ctx, iv_hv) ==
    IF iv_ctx = "VERY_EXPENSIVE" \/ iv_hv > 160 THEN 5
    ELSE IF iv_ctx = "EXPENSIVE" \/ iv_hv > 130 THEN 10
    ELSE IF iv_ctx \in {"CHEAP", "SLIGHT_DISCOUNT"} \/ iv_hv < 90 THEN 25
    ELSE 15

\* A NEUTRAL fallback that sells premium instead of waiting.
NeutralPositionsSellPremium(thesis) ==
    IF thesis = "NEUTRAL"
    THEN << Position("iron_condor", "NEUTRAL", "SELL", "CALL", 0, {None}, "LOW") >>
    ELSE << >>

\* The trailing "NO POSITION - wait for signal" entry.
NeutralPositions(thesis) ==
    IF thesis = "NEUTRAL"
    THEN << Position("skip", "NEUTRAL", "WAIT", "-", 0, {None}, "N/A") >>
    ELSE << >>

\* Entries generated by the thesis branch (the if/elif chain on thesis).
ThesisPositions(thesis, spot, bias, call_wall, put_wall, wall_break, dte, atr_dollar, atr_pct, iv_hv, iv_ctx, vrp_ctx) ==
    LET is_bullish == bias.direction = "BULLISH"
        dir_opt == IF is_bullish THEN "CALL" ELSE "PUT"
        wall_target == IF is_bullish THEN call_wall ELSE put_wall
        strike_offset == StrikeOffset(iv_ctx, iv_hv)
        \* spot * strike_mult, in milli-cents
        raw_strike == IF is_bullish THEN spot * (1000 + strike_offset)
                      ELSE spot * (1000 - strike_offset)
        max_move == AtrMaxMove(atr_dollar, dte, 3, 2)
        wb_prob == wall_break.probability
        \* 1e-3 percent
        wall_dist_pct == IF wall_target # 0
                         THEN (Abs(wall_target - spot) * 100000) \div spot
                         ELSE 5000
        thesis_strike == RoundStrike(ClampStrike(raw_strike, spot, atr_dollar, dte, is_bullish), spot)
    IN  IF thesis = "MOMENTUM_BREAKOUT"
        THEN LET wall_reachable == IF max_move > 0
                                   THEN 1000 * Abs(wall_target - spot) <= max_move
                                   ELSE TRUE
                 lottery_strike == ClampStrike(1000 * wall_target, spot, atr_dollar,
                                               Max(dte, 7), is_bullish)
             IN  << Position("momentum", "AGAINST_DEALER", "BUY", dir_opt, thesis_strike,
                             KellySizes(wall_dist_pct * 2, wb_prob, iv_hv, vrp_ctx), "HIGH") >>
                 \o (IF wall_target > 0
                     THEN << Position("lottery", "AGAINST_DEALER", "BUY", dir_opt,
                                      RoundStrike(lottery_strike, spot), {None},
                                      IF wall_reachable THEN "MEDIUM" ELSE "LOW") >>
                     ELSE << >>)
        ELSE IF thesis = "MOMENTUM_EARLY"
        THEN << Position("early_momentum", "AGAINST_DEALER", "BUY", dir_opt, thesis_strike,
                         KellySizes((wall_dist_pct * 3) \div 2, Min(wb_prob, 50), iv_hv, vrp_ctx),
                         "MEDIUM") >>
        ELSE IF thesis = "MOMENTUM_TREND"
        THEN << Position("momentum", "AGAINST_DEALER", "BUY", dir_opt, thesis_strike,
                         KellySizes(atr_pct * 20, 55, iv_hv, vrp_ctx), "MEDIUM") >>
        ELSE IF thesis = "CONFLICTED_PIN"
        THEN LET cw_reachable == IF max_move > 0
                                 THEN 1000 * Abs(call_wall - spot) <= max_move
                                 ELSE TRUE
             IN  << Position("pin_approach", "WITH_DEALER", "BUY", "CALL",
                             RoundStrike(1000 * spot, spot), {None},
                             IF cw_reachable THEN "MEDIUM" ELSE "LOW") >>
                 \o (IF call_wall > 0
                     THEN << Position("wall_fade", "WITH_DEALER", "BUY", "PUT",
                                      RoundStrike(1000 * call_wall, spot), {None}, "MEDIUM") >>
                     ELSE << >>)
        ELSE IF thesis \in FadeTheses
        THEN LET fade_offset == IF iv_hv > 130 THEN 5 ELSE 10
                 fade_win == IF thesis = "FADE_MOVES" THEN 65 ELSE 55
                 kelly == KellySizes(atr_pct * 10, fade_win, iv_hv, vrp_ctx)
                 conf == IF thesis = "FADE_MOVES" THEN "HIGH" ELSE "MEDIUM"
             IN  << Position("fade_dip", "WITH_DEALER", "BUY", "CALL",
                             RoundStrike(spot * (1000 - fade_offset), spot), kelly, conf),
                    Position("fade_rip", "WITH_DEALER", "BUY", "PUT",
                             RoundStrike(spot * (1000 + fade_offset), spot), kelly, conf) >>
        ELSE << >>

\* WITH-DEALER channel plays, added whatever the thesis is.
ChannelPositions(ch_strategy, ch_floor, ch_ceiling, spot, atr_dollar, dte, iv_hv, vrp_ctx) ==
    LET Mid(other) == IF other \notin {None, 0}
                      THEN (ch_floor + ch_ceiling) * 500 ELSE 1000 * spot
        Clamped(mid) == IF atr_dollar > 0 THEN ClampTarget(mid, spot, atr_dollar, dte) ELSE mid
        \* 1e-3 percent
        MovePct(mid) == IF spot > 0 THEN (Abs(Clamped(mid) - 1000 * spot) * 100) \div spot
                        ELSE 1000
    IN  (IF ch_strategy = "GEX_FLOOR_BOUNCE" /\ ch_floor \notin {None, 0}
         THEN << Position("gex_floor_bounce", "WITH_DEALER", "BUY", "CALL",
                          RoundStrike(1000 * spot, spot),
                          KellySizes(MovePct(Mid(ch_ceiling)), 70, iv_hv, vrp_ctx), "HIGH") >>
         ELSE << >>)
        \o
        (IF ch_strategy = "GEX_CEILING_FADE" /\ ch_ceiling \notin {None, 0}
         THEN << Position("gex_ceiling_fade", "WITH_DEALER", "BUY", "PUT",
                          RoundStrike(1000 * spot, spot),
                          KellySizes(MovePct(Mid(ch_floor)), 70, iv_hv, vrp_ctx), "HIGH") >>
         ELSE << >>)

\* Charm/vanna drift play for short DTE, added whatever the thesis is.
CharmPositions(dte, charm, spot, max_pain) ==
    IF dte <= 5 /\ Abs(charm) > 10000
    THEN << Position("charm_drift", "WITH_DEALER", "BUY",
                     IF spot > max_pain THEN "PUT" ELSE "CALL",
                     RoundStrike(1000 * spot, spot), {None}, "MEDIUM") >>
    ELSE << >>

BuildPositions(thesis, spot, bias, call_wall, put_wall, ch_floor, ch_ceiling, ch_strategy, wall_break, dte, max_pain, charm, atr_dollar, atr_pct, iv_hv, iv_ctx, vrp_ctx) ==
    ThesisPositions(thesis, spot, bias, call_wall, put_wall, wall_break, dte,
                    atr_dollar, atr_pct, iv_hv, iv_ctx, vrp_ctx)
    \o ChannelPositions(ch_strategy, ch_floor, ch_ceiling, spot, atr_dollar, dte, iv_hv, vrp_ctx)
    \o CharmPositions(dte, charm, spot, max_pain)
    \o NeutralPositions(thesis)

----------------------------------------------------------------------------
(* directional_engine._build_level_actions                                 *)
(* Levels in cents, distance_pct in 1e-2 %, collision_prob in 1e-1 %.  The *)
(* texts are kept by their opening words.                                  *)

LevelAction(level, label, type, spot, side, expectation, action) ==
    [level |-> level, label |-> <<label>>, type |-> type,
     distance_pct |-> RoundHalfEven(10000 * Abs(spot - level), spot),
     side |-> side, expectation |-> <<expectation>>, action |-> action]

Side(level, spot) == IF level < spot THEN "below" ELSE "above"

\* The entries in the order the function appends them; an absent level (None
\* or not positive) contributes none.
GeneratedLevelActions(spot, re_regime, max_pain, call_wall, put_wall, flip_point, ags, ch_floor, ch_ceiling, vwap_level) ==
    LET is_laminar == re_regime = "LAMINAR"
        When(level, entry) == IF level > 0 THEN <<entry>> ELSE << >>
    IN  When(max_pain,
             IF spot > max_pain
             THEN LevelAction(max_pain, "Max Pain", "max_pain", spot, "below",
                              "Price is pulled toward this level", "BUY PUTS if above")
             ELSE LevelAction(max_pain, "Max Pain", "max_pain", spot, "above",
                              "Price gravitates up toward max pain", "BUY CALLS"))
        \o When(call_wall,
                IF is_laminar
                THEN LevelAction(call_wall, "Call Wall (Resistance)", "call_wall", spot,
                                 "above", "EXPECT REVERSAL", "BUY PUTS")
                ELSE LevelAction(call_wall, "Call Wall (Breakout Trigger)", "call_wall", spot,
                                 "above", "EXPECT BREAKOUT", "BUY CALLS"))
        \o When(put_wall,
                IF is_laminar
                THEN LevelAction(put_wall, "Put Wall (Support)", "put_wall", spot,
                                 "below", "EXPECT BOUNCE", "BUY CALLS")
                ELSE LevelAction(put_wall, "Put Wall (Breakdown Trigger)", "put_wall", spot,
                                 "below", "EXPECT BREAKDOWN", "BUY PUTS"))
        \o When(flip_point,
                LevelAction(flip_point, "GEX Flip Point (Regime Change)", "flip_point", spot,
                            Side(flip_point, spot), "REGIME CHANGE TRIGGER",
                            "BUY PUTS on break below, BUY CALLS on reclaim above"))
        \o When(ch_floor,
                LevelAction(ch_floor, "GEX Channel Floor", "channel_floor", spot, "below",
                            "Dealer buying zone", "BUY CALLS"))
        \o When(ch_ceiling,
                LevelAction(ch_ceiling, "GEX Channel Ceiling", "channel_ceiling", spot,
                            "above", "Dealer selling zone", "BUY PUTS"))
        \o When(ags,
                LevelAction(ags, "Absolute Gamma Strike (Magnet)", "abs_gamma_strike", spot,
                            Side(ags, spot), "Strongest gamma concentration",
                            "Trade toward it, not away"))
        \o When(vwap_level,
                IF spot > vwap_level
                THEN LevelAction(vwap_level, "VWAP (Institutional Fair Value)", "vwap", spot,
                                 Side(vwap_level, spot), "Dips to VWAP tend to find buyers",
                                 "BUY CALLS on dip")
                ELSE LevelAction(vwap_level, "VWAP (Institutional Fair Value)", "vwap", spot,
                                 Side(vwap_level, spot), "Below VWAP - sellers in control",
                                 "BUY PUTS on rally"))

\* round(p_col * 100, 1) and its label.
WithCollision(a, spot, atr_dollar, dte) ==
    LET p_col == CollisionProbability(spot, a.level, atr_dollar, dte)
    IN  [collision_prob |-> CollisionPercent(spot, a.level, atr_dollar, dte),
         collision_label |-> IF p_col > 6000 THEN "LIKELY"
                             ELSE IF p_col > 3000 THEN "POSSIBLE" ELSE "UNLIKELY"] @@ a

TypePriority(type) ==
    CASE type = "flip_point" -> 0
      [] type = "call_wall" -> 1
      [] type = "put_wall" -> 2
      [] type = "max_pain" -> 3
      [] type = "abs_gamma_strike" -> 4
      [] type = "channel_floor" -> 5
      [] type = "channel_ceiling" -> 6
      [] OTHER -> 99

\* abs(a.level - b.level) / spot * 100 < 0.3
SameLevel(a, b, spot) == 1000 * Abs(a.level - b.level) < 3 * spot

\* The groups in order of their first entry: each unused entry collects the
\* unused entries within the threshold of itself.
RECURSIVE GroupLevels(_, _)
GroupLevels(actions, spot) ==
    IF actions = << >> THEN << >>
    ELSE LET a == Head(actions)
             near == SelectSeq(Tail(actions), LAMBDA b : SameLevel(a, b, spot))
             rest == SelectSeq(Tail(actions), LAMBDA b : ~SameLevel(a, b, spot))
         IN  <<<<a>> \o near>> \o GroupLevels(rest, spot)

\* list.sort(key=type_priority): stable, ascending.
RECURSIVE ByTypePriority(_)
ByTypePriority(group) ==
    IF group = << >> THEN << >>
    ELSE LET first == CHOOSE i \in 1..Len(group) :
                          \A j \in 1..Len(group) :
                              \/ TypePriority(group[i].type) < TypePriority(group[j].type)
                              \/ (TypePriority(group[i].type) = TypePriority(group[j].type)
                                  /\ i <= j)
         IN  <<group[first]>> \o ByTypePriority(SubSeq(group, 1, first - 1)
                                                \o SubSeq(group, first + 1, Len(group)))

\* One entry per group: the highest-priority member with the labels and
\* expectations of the others appended.
MergeGroup(group) ==
    IF Len(group) = 1 THEN group[1]
    ELSE LET sorted == ByTypePriority(group)
             primary == sorted[1]
             others == Tail(sorted)
         IN  [primary EXCEPT
                 !.label = primary.label \o [i \in 1..Len(others) |-> others[i].label[1]],
                 !.expectation =
                     primary.expectation
                     \o [i \in 1..Len(others) |-> others[i].expectation[1]]]

consolidate_level_actions(actions, spot) ==
    LET groups == GroupLevels(actions, spot)
    IN  [g \in 1..Len(groups) |-> MergeGroup(groups[g])]

\* list.sort(key=distance_pct): stable, ascending.
RECURSIVE ByDistance(_)
ByDistance(actions) ==
    IF actions = << >> THEN << >>
    ELSE LET first == CHOOSE i \in 1..Len(actions) :
                          \A j \in 1..Len(actions) :
                              \/ actions[i].distance_pct < actions[j].distance_pct
                              \/ (actions[i].distance_pct = actions[j].distance_pct /\ i <= j)
         IN  <<actions[first]>> \o ByDistance(SubSeq(actions, 1, first - 1)
                                              \o SubSeq(actions, first + 1, Len(actions)))

build_level_actions(spot, re_regime, max_pain, call_wall, put_wall, flip_point, ags, ch_floor, ch_ceiling, vwap_level, atr_dollar, dte) ==
    LET generated == GeneratedLevelActions(spot, re_regime, max_pain, call_wall, put_wall,
                                           flip_point, ags, ch_floor, ch_ceiling, vwap_level)
        actions == [i \in 1..Len(generated) |->
                       WithCollision(generated[i], spot, atr_dollar, dte)]
    IN  ByDistance(consolidate_level_actions(actions, spot))

----------------------------------------------------------------------------
(* directional_engine.classify_thesis                                      *)

\* The result bundle of classify_thesis for the argument record a, whose
\* fields carry the names of the function's parameters.
ClassifyThesis(a) ==
    LET acf_regime == a.acf.regime
        acf1 == a.acf.mean_acf1
        pct_amp == a.acf.pct_amplified
        pct_damp == a.acf.pct_dampened
        re_gamma == a.reynolds.reynolds_number
        re_regime == a.reynolds.regime
        tech_bias_dir == a.technicals.trend.tech_bias
        tech_score == a.technicals.trend.trend_score
        ma_alignment == a.technicals.moving_averages.alignment
        beta == a.technicals.relative_strength.beta_60d
        sei == a.acf.self_excitation.sei
        sei_regime == a.acf.self_excitation.regime
        entropy_regime == a.technicals.gex_entropy.regime
        atr_dollar == a.technicals.atr.atr
        atr_pct == a.technicals.atr.atr_pct
        vc == a.technicals.vol_context
        wall_break == EstimateWallBreakProbability(
                          re_gamma, acf1, pct_amp, pct_damp, a.phase.regime, beta,
                          atr_dollar, a.dte, a.call_wall.strike, a.put_wall.strike,
                          a.spot, sei, entropy_regime, a.gex_regime)
        momentum == acf_net_momentum(pct_amp, pct_damp, acf1, sei_regime)
        eff == effective_re(re_gamma, re_regime, beta, entropy_regime)
        thesis == ThesisTree(eff, momentum, pct_amp, pct_damp, acf_regime, acf1)
        bias == TechOverlay(
                    ComputeBias(thesis, a.spot, a.flip_point, a.max_pain,
                                a.channel.channel_position, a.total_charm, a.dte,
                                ma_alignment, tech_score),
                    tech_bias_dir)
        positions == BuildPositions(
                         thesis, a.spot, bias, a.call_wall.strike, a.put_wall.strike,
                         a.channel.floor, a.channel.ceiling, a.channel_strat.strategy,
                         wall_break, a.dte, a.max_pain, a.total_charm,
                         atr_dollar, atr_pct, vc.iv_hv_ratio, vc.iv_context,
                         vc.vrp_context)
        vwap_level == IF "vwap" \in DOMAIN a.technicals
                      THEN a.technicals.vwap.vwap_20d.value
                      ELSE None
        level_actions == build_level_actions(
                             a.spot, re_regime, a.max_pain, a.call_wall.strike,
                             a.put_wall.strike, a.flip_point, a.abs_gamma_strike,
                             a.channel.floor, a.channel.ceiling, vwap_level,
                             atr_dollar, a.dte)
    IN  [thesis |-> thesis, bias |-> bias, positions |-> positions,
         level_actions |-> level_actions, wall_break |-> wall_break]

----------------------------------------------------------------------------
(* gamma_reynolds.compute_gamma_reynolds                                   *)

\* An option row: strike in cents, impliedVolatility in 1e-2.
Option(strike, volume, openInterest, impliedVolatility) ==
    [strike |-> strike, volume |-> volume, openInterest |-> openInterest,
     impliedVolatility |-> impliedVolatility]

\* A dict row may lack the "strike" key.
HasStrike(c) == "strike" \in DOMAIN c

\* c.get("strike", 0): a row without the key reads as strike 0.
GetStrike(c) == IF HasStrike(c) THEN c.strike ELSE 0

\* A leg as the .get("strike", 0) readers see it.
StrikeOrZero(leg) ==
    [i \in 1..Len(leg) |-> IF HasStrike(leg[i]) THEN leg[i] ELSE [strike |-> 0] @@ leg[i]]

\* The rows of a leg.
RowsOf(leg) == {leg[i] : i \in 1..Len(leg)}

\* The exception c["strike"] raises on a row without the key.
KeyError == [raised |-> "KeyError"]

\* float(c.get("impliedVolatility", 0.3) or 0.3): a zero IV reads as 0.3.
OptionIv(o) == IF o.impliedVolatility = 0 THEN 30 ELSE o.impliedVolatility

\* gamma_proxy = exp(-0.5 * (ln(spot / strike) / max(iv, 0.01))^2) in 1e-6,
\* tabulated for spot = 100.00 at the strikes 90, 100, 110, 150 and the
\* volatilities 0.01 and 0.30.  At the money the proxy is exactly 1.
GammaProxy(strike, iv) ==
    IF strike = 10000 THEN 1000000
    ELSE IF Max(iv, 1) = 30
         THEN CASE strike = 9000 -> 940192
                [] strike = 11000 -> 950785
                [] strike = 15000 -> 401180
         ELSE 0

\* The proxy is positive but below 1e-19 (7.8e-25 at 90, 1.9e-20 at 110 for
\* iv 0.01); at 150 the exponential underflows to exactly 0.0.
GammaProxyTiny(strike, iv) == Max(iv, 1) = 1 /\ strike \in {9000, 11000}

\* Rows that reach the gamma sums: strike <= 0 or iv <= 0 rows are skipped
\* after their volume and open interest have been counted.
Weighted(o) == o.strike > 0 /\ OptionIv(o) > 0

\* abs(strike - spot) / spot <= atm_tolerance (0.10)
NearAtm(o, spot) == 10 * Abs(o.strike - spot) <= spot

RECURSIVE SumOver(_, _)
SumOver(q, f) == IF q = << >> THEN 0 ELSE f[Head(q)] + SumOver(Tail(q), f)

\* round(n / d, 4) in 1e-4 by long division (0 <= n, 0 < d).
RoundRatio4(n, d) ==
    LET r0 == n % d
        r1 == (10 * r0) % d
        r2 == (10 * r1) % d
        r3 == (10 * r2) % d
        r4 == (10 * r3) % d
        v == 10000 * (n \div d) + 1000 * ((10 * r0) \div d) + 100 * ((10 * r1) \div d)
             + 10 * ((10 * r2) \div d) + (10 * r3) \div d
    IN  IF 2 * r4 > d \/ (2 * r4 = d /\ v % 2 = 1) THEN v + 1 ELSE v

\* float("inf")
Inf == Rat(1, 0)

\* The regime thresholds, read on the unrounded, uncapped ratio.
ReynoldsRegimeOf(re_gamma) ==
    IF RatGt(re_gamma, Rat(1, 1)) THEN "TURBULENT"
    ELSE IF RatGt(re_gamma, Rat(7, 10)) THEN "TRANSITIONAL"
    ELSE "LAMINAR"

\* round(min(re_gamma, 99), 4) in 1e-4
ReportedReynoldsUncapped(re_gamma) ==
    IF re_gamma.d = 0 THEN 1000000000 ELSE RoundRatio4(re_gamma.n, re_gamma.d)

ReportedReynolds(re_gamma) ==
    IF re_gamma.d = 0 \/ re_gamma.n \div re_gamma.d >= 99 THEN 990000
    ELSE RoundRatio4(re_gamma.n, re_gamma.d)

\* Gamma sums in units of 1e-6 * spot^2; a sum whose only terms are tiny
\* proxies is below the 1e-6 guard and is carried as 0 with a flag.
compute_gamma_reynolds(call_rows, put_rows, spot) ==
    LET calls == StrikeOrZero(call_rows)
        puts == StrikeOrZero(put_rows)
    IN
    IF calls = << >> \/ puts = << >> \/ spot <= 0
    THEN [reynolds_number |-> 0, regime |-> "UNKNOWN", call_put_ratio |-> 0,
          call_volume |-> 0, put_volume |-> 0, call_oi |-> 0, put_oi |-> 0,
          atm_iv |-> 0]
    ELSE
    LET Rows == {calls[i] : i \in 1..Len(calls)} \cup {puts[i] : i \in 1..Len(puts)}
        proxy == [o \in Rows |-> IF Weighted(o) THEN GammaProxy(o.strike, OptionIv(o)) ELSE 0]
        spec == [o \in Rows |-> IF Weighted(o) /\ NearAtm(o, spot)
                                THEN proxy[o] * o.volume ELSE 0]
        speculative_gamma == SumOver(calls, spec)
        speculative_tiny == \E i \in 1..Len(calls) :
                                /\ Weighted(calls[i]) /\ NearAtm(calls[i], spot)
                                /\ GammaProxyTiny(calls[i].strike, OptionIv(calls[i]))
                                /\ calls[i].volume > 0
        oi_gamma == [o \in Rows |-> proxy[o] * o.openInterest]
        dealer_gamma == SumOver(calls, oi_gamma) - SumOver(puts, oi_gamma)
        re_gamma == IF dealer_gamma = 0
                    THEN (IF speculative_gamma > 0 \/ speculative_tiny THEN Inf ELSE Rat(0, 1))
                    ELSE Rat(speculative_gamma, Abs(dealer_gamma))
        volume == [o \in Rows |-> o.volume]
        oi == [o \in Rows |-> o.openInterest]
        atm_ivs == SelectSeq(calls, LAMBDA o : Weighted(o) /\ NearAtm(o, spot))
        iv == [o \in Rows |-> OptionIv(o)]
    IN  [reynolds_number |-> ReportedReynolds(re_gamma),
         regime |-> ReynoldsRegimeOf(re_gamma),
         call_put_ratio |-> RoundHalfEven(100 * SumOver(calls, volume),
                                          Max(SumOver(puts, volume), 1)),
         call_volume |-> SumOver(calls, volume), put_volume |-> SumOver(puts, volume),
         call_oi |-> SumOver(calls, oi), put_oi |-> SumOver(puts, oi),
         atm_iv |-> IF atm_ivs = << >> THEN 0
                    ELSE RoundHalfEven(100 * SumOver(atm_ivs, iv), Len(atm_ivs))]

----------------------------------------------------------------------------
(* gex_calculator.black_scholes_gamma, _find_gex_flip, calculate_gex_profile *)

\* black_scholes_gamma(S, K, T, 0.05, 0.30) in 1e-9 for S = 100.00 and
\* T = 10 / 365 at the strikes 90 .. 110; 0.0 when S <= 0.  At strike 50 the
\* gamma is 1.9e-44: positive, but far below every rounding step.
black_scholes_gamma(S, K) ==
    IF S <= 0 THEN 0
    ELSE CASE K = 9000 -> 7558590
           [] K = 9500 -> 44578432
           [] K = 10000 -> 80230346
           [] K = 10500 -> 52127575
           [] K = 11000 -> 14061879
           [] OTHER -> 0

GammaTiny(S, K) == S > 0 /\ K = 5000

\* Ascending sequence of a finite set of numbers.
RECURSIVE Sorted(_)
Sorted(S) ==
    IF S = {} THEN << >>
    ELSE LET m == CHOOSE x \in S : \A y \in S : x <= y
         IN  << m >> \o Sorted(S \ {m})

\* The crossing between two adjacent rows: s1 + (s2 - s1) * |g1| / (|g1| + |g2|),
\* rounded to cents.
Crossing(r1, r2) ==
    r1.strike + RoundHalfEven((r2.strike - r1.strike) * Abs(r1.net_gex),
                              Abs(r1.net_gex) + Abs(r2.net_gex))

\* g1 * g2 < 0
OppositeSigns(g1, g2) == (g1 < 0 /\ g2 > 0) \/ (g1 > 0 /\ g2 < 0)

\* A version that returns the lowest crossing instead of the nearest.
FindGexFlipLowest(gex_by_strike, spot) ==
    LET idx == {i \in 1..(Len(gex_by_strike) - 1) :
                   OppositeSigns(gex_by_strike[i].net_gex, gex_by_strike[i + 1].net_gex)}
    IN  IF Len(gex_by_strike) < 2 \/ idx = {} THEN None
        ELSE LET i == CHOOSE i \in idx : \A j \in idx : i <= j
             IN  Crossing(gex_by_strike[i], gex_by_strike[i + 1])

\* _find_gex_flip: None without two rows or without a sign change, else the
\* crossing nearest to spot (the lowest one among equally near crossings).
FindGexFlip(gex_by_strike, spot) ==
    LET idx == {i \in 1..(Len(gex_by_strike) - 1) :
                   OppositeSigns(gex_by_strike[i].net_gex, gex_by_strike[i + 1].net_gex)}
        x == [i \in idx |-> Crossing(gex_by_strike[i], gex_by_strike[i + 1])]
    IN  IF Len(gex_by_strike) < 2 \/ idx = {} THEN None
        ELSE LET i == CHOOSE i \in idx :
                          \A j \in idx : \/ Abs(x[i] - spot) < Abs(x[j] - spot)
                                         \/ (Abs(x[i] - spot) = Abs(x[j] - spot) /\ i <= j)
             IN  x[i]

\* max(gex_by_strike, key=abs(net_gex))["strike"], the first row among equals;
\* spot when there is no row.
AbsGammaStrike(gex_by_strike, spot) ==
    IF gex_by_strike = << >> THEN spot
    ELSE LET i == CHOOSE i \in 1..Len(gex_by_strike) :
                      \A j \in 1..Len(gex_by_strike) :
                          \/ Abs(gex_by_strike[i].net_gex) > Abs(gex_by_strike[j].net_gex)
                          \/ (Abs(gex_by_strike[i].net_gex) = Abs(gex_by_strike[j].net_gex)
                              /\ i <= j)
         IN  gex_by_strike[i].strike

\* A version that ignores the flip point.
GexRegimeAggregateOnly(flip_point, spot, total_gex) ==
    IF total_gex >= 0 THEN "POSITIVE_GAMMA" ELSE "NEGATIVE_GAMMA"

\* The regime: by the flip point when there is one, else by the sign of the
\* aggregate.
GexRegime(flip_point, spot, total_gex) ==
    IF flip_point # None
    THEN (IF spot >= flip_point THEN "POSITIVE_GAMMA" ELSE "NEGATIVE_GAMMA")
    ELSE (IF total_gex >= 0 THEN "POSITIVE_GAMMA" ELSE "NEGATIVE_GAMMA")

\* The last row of a leg at strike k (call_map[k] = c overwrites); its open
\* interest, 0 when the leg has no row there.
OpenInterestAt(leg, k) ==
    LET idx == {i \in 1..Len(leg) : leg[i].strike = k}
    IN  IF idx = {} THEN 0
        ELSE leg[CHOOSE i \in idx : \A j \in idx : j <= i].openInterest

\* The unrounded aggregate total_call_gex + total_put_gex, in 1e-9 * 100 * S.
\* Terms at the tiny-gamma strike are absorbed by any other term and decide
\* the sign only when every other term is zero.
TotalGex(calls, puts, spot, strikes) ==
    LET call_gex == SumOver(strikes, [k \in {strikes[i] : i \in 1..Len(strikes)} |->
                        black_scholes_gamma(spot, k) * OpenInterestAt(calls, k)])
        put_gex == SumOver(strikes, [k \in {strikes[i] : i \in 1..Len(strikes)} |->
                        black_scholes_gamma(spot, k) * OpenInterestAt(puts, k)])
        tiny == SumOver(strikes, [k \in {strikes[i] : i \in 1..Len(strikes)} |->
                        IF GammaTiny(spot, k)
                        THEN OpenInterestAt(calls, k) - OpenInterestAt(puts, k) ELSE 0])
    IN  IF call_gex = 0 /\ put_gex = 0 THEN tiny ELSE call_gex - put_gex

\* Strikes in cents; net_gex in cents (round(net_gex, 2)); every row carries
\* the default implied volatility 0.30 and dte is 10.  The delta, charm,
\* vanna and entropy fields of the profile are not carried.
calculate_gex_profile(call_rows, put_rows, spot) ==
    LET calls == StrikeOrZero(call_rows)
        puts == StrikeOrZero(put_rows)
        strikes == Sorted({calls[i].strike : i \in {j \in 1..Len(calls) : calls[j].strike > 0}}
                          \cup {puts[i].strike : i \in {j \in 1..Len(puts) : puts[j].strike > 0}})
        row == [k \in {strikes[i] : i \in 1..Len(strikes)} |->
                  [strike |-> k,
                   call_oi |-> OpenInterestAt(calls, k),
                   put_oi |-> OpenInterestAt(puts, k),
                   net_gex |-> RoundHalfEven(
                       black_scholes_gamma(spot, k)
                           * (OpenInterestAt(calls, k) - OpenInterestAt(puts, k)), 1000)]]
        gex_by_strike == [i \in 1..Len(strikes) |-> row[strikes[i]]]
        flip_point == FindGexFlip(gex_by_strike, spot)
    IN  [gex_by_strike |-> gex_by_strike,
         flip_point |-> flip_point,
         abs_gamma_strike |-> AbsGammaStrike(gex_by_strike, spot),
         regime |-> GexRegime(flip_point, spot, TotalGex(calls, puts, spot, strikes))]

----------------------------------------------------------------------------
(* max_pain.calculate_max_pain                                             *)

\* Candidate strikes in the order the rows list them, duplicates dropped.
RECURSIVE CandidateStrikesAsListed(_, _)
CandidateStrikesAsListed(calls, puts) ==
    LET rows == calls \o puts
    IN  IF rows = << >> THEN << >>
        ELSE LET rest == CandidateStrikesAsListed(
                             SelectSeq(calls, LAMBDA o : o.strike # rows[1].strike),
                             SelectSeq(puts, LAMBDA o : o.strike # rows[1].strike))
             IN  << rows[1].strike >> \o rest

\* strikes = sorted(strikes): every strike of either leg, ascending.
CandidateStrikes(calls, puts) ==
    Sorted({calls[i].strike : i \in 1..Len(calls)} \cup {puts[i].strike : i \in 1..Len(puts)})

\* Payout to option holders at test_price, in dollars (strikes in cents,
\* 100 shares per contract): calls below and puts above are in the money.
TotalPain(calls, puts, test_price) ==
    LET rows == {calls[i] : i \in 1..Len(calls)} \cup {puts[i] : i \in 1..Len(puts)}
    IN  SumOver(calls, [o \in rows |-> IF test_price > o.strike
                                       THEN (test_price - o.strike) * o.openInterest ELSE 0])
        + SumOver(puts, [o \in rows |-> IF test_price < o.strike
                                        THEN (o.strike - test_price) * o.openInterest ELSE 0])

\* min(pain_by_strike, key=total_pain): the first row among the cheapest.
calculate_max_pain(calls, puts) ==
    LET strikes == CandidateStrikes(calls, puts)
        pain_by_strike == [i \in 1..Len(strikes) |->
                              [strike |-> strikes[i],
                               total_pain |-> TotalPain(calls, puts, strikes[i])]]
    IN  IF \E c \in RowsOf(calls) \cup RowsOf(puts) : ~HasStrike(c) THEN KeyError
        ELSE IF strikes = << >> THEN [max_pain |-> 0, pain_by_strike |-> << >>]
        ELSE LET i == CHOOSE i \in 1..Len(strikes) :
                          \A j \in 1..Len(strikes) :
                              \/ pain_by_strike[i].total_pain < pain_by_strike[j].total_pain
                              \/ (pain_by_strike[i].total_pain = pain_by_strike[j].total_pain
                                  /\ i <= j)
             IN  [max_pain |-> pain_by_strike[i].strike,
                  max_pain_value |-> pain_by_strike[i].total_pain,
                  pain_by_strike |-> pain_by_strike]

\* list.sort(key=oi, reverse=True): descending by open interest, rows of equal
\* open interest in their listed order.
RECURSIVE ByOiDescending(_)
ByOiDescending(q) ==
    IF q = << >> THEN << >>
    ELSE LET i == CHOOSE i \in 1..Len(q) :
                      \A j \in 1..Len(q) : q[i].oi > q[j].oi \/ (q[i].oi = q[j].oi /\ i <= j)
         IN  << q[i] >> \o ByOiDescending(SubSeq(q, 1, i - 1) \o SubSeq(q, i + 1, Len(q)))

\* max_pain.find_oi_walls: the call row above spot and the put row below spot
\* with the largest open interest, and the top five on each side.
find_oi_walls(calls, puts, spot) ==
    IF \E c \in RowsOf(calls) \cup RowsOf(puts) : ~HasStrike(c) THEN KeyError
    ELSE LET above == SelectSeq(calls, LAMBDA c : c.strike > spot)
             below == SelectSeq(puts, LAMBDA p : p.strike < spot)
             calls_above == ByOiDescending([i \in 1..Len(above) |->
                                [strike |-> above[i].strike, oi |-> above[i].openInterest]])
             puts_below == ByOiDescending([i \in 1..Len(below) |->
                                [strike |-> below[i].strike, oi |-> below[i].openInterest]])
         IN  [call_wall |-> IF calls_above = << >> THEN [strike |-> 0, oi |-> 0]
                            ELSE calls_above[1],
              put_wall |-> IF puts_below = << >> THEN [strike |-> 0, oi |-> 0]
                           ELSE puts_below[1],
              top_call_walls |-> SubSeq(calls_above, 1, Min(5, Len(calls_above))),
              top_put_walls |-> SubSeq(puts_below, 1, Min(5, Len(puts_below)))]

----------------------------------------------------------------------------
(* Detector readings that feed classify_thesis in main.dealer_map          *)

RECURSIVE SumSeq(_)
SumSeq(q) == IF q = << >> THEN 0 ELSE Head(q) + SumSeq(Tail(q))

CountIf(q, P(_)) == Cardinality({i \in 1..Len(q) : P(q[i])})

\* acf_engine.scan_ticker_acf, the aggregate over the per-day lag-1 values
\* (1e-4).  The regime is classified on the unrounded mean.
ScanTickerAcf(lag1_values, self_excitation) ==
    LET n_total == Len(lag1_values)
        total == SumSeq(lag1_values)
        n_dampened == CountIf(lag1_values, LAMBDA v : v < -500)
        n_amplified == CountIf(lag1_values, LAMBDA v : v > 500)
        Sign(v) == IF v > 0 THEN 1 ELSE -1
        transitions == Cardinality({i \in 2..n_total :
                                       Sign(lag1_values[i - 1]) # Sign(lag1_values[i])})
    IN  IF n_total = 0
        THEN [status |-> "INSUFFICIENT_DATA"]
        ELSE [status |-> "OK",
              mean_acf1 |-> RoundHalfEven(total, n_total),
              regime |-> IF total < -500 * n_total THEN "LONG_GAMMA"
                         ELSE IF total > 500 * n_total THEN "SHORT_GAMMA"
                         ELSE "NEUTRAL",
              pct_dampened |-> RoundHalfEven(1000 * n_dampened, n_total),
              pct_amplified |-> RoundHalfEven(1000 * n_amplified, n_total),
              stability |-> IF 100 * transitions < 10 * n_total THEN "ROCK_SOLID"
                            ELSE IF 100 * transitions < 25 * n_total THEN "STABLE"
                            ELSE IF 100 * transitions < 40 * n_total THEN "CONTESTED"
                            ELSE "UNRELIABLE",
              daily_results |-> lag1_values,
              self_excitation |-> self_excitation]

\* acf_engine._empty_sei
EmptySei == [sei |-> 0, regime |-> "NONE"]

\* main.dealer_map step 4: the neutral reading used when status is not OK;
\* it has no self_excitation key, so classify_thesis reads the defaults.
AcfFallback ==
    [status |-> "FALLBACK", mean_acf1 |-> 0, regime |-> "NEUTRAL",
     pct_dampened |-> 0, pct_amplified |-> 0, stability |-> "UNKNOWN",
     daily_results |-> << >>, self_excitation |-> EmptySei]

AcfOrFallback(acf) == IF acf.status # "OK" THEN AcfFallback ELSE acf

\* gamma_reynolds.detect_phase_transition (window 20, threshold 12.9%).
detect_phase_transition(acf_daily_results) ==
    IF acf_daily_results = << >> THEN [regime |-> "UNKNOWN"]
    ELSE LET n == Len(acf_daily_results)
             recent == IF n >= 20 THEN SubSeq(acf_daily_results, n - 19, n)
                       ELSE acf_daily_results
             n_amplified == CountIf(recent, LAMBDA v : v > 500)
         IN  [regime |-> IF 1000 * n_amplified > 129 * Len(recent) THEN "TURBULENT"
                         ELSE IF 10000 * n_amplified > 903 * Len(recent) THEN "APPROACHING"
                         ELSE "LAMINAR"]

\* technicals.compute_technicals, the fields classify_thesis reads, with the
\* entropy and vol context main.dealer_map injects (steps 8b, 8c).
Technicals(alignment, rs_label, beta, atr, spot, entropy_regime, iv_hv) ==
    [moving_averages |-> [alignment |-> alignment],
     relative_strength |-> [rs_label |-> rs_label, beta_60d |-> beta],
     atr |-> [atr |-> atr, atr_pct |-> RoundHalfEven(atr * 10000, spot)],
     trend |-> [trend_score |-> trend_score(alignment, rs_label),
                tech_bias |-> tech_bias(trend_score(alignment, rs_label))],
     gex_entropy |-> [regime |-> entropy_regime],
     vol_context |-> [iv_hv_ratio |-> iv_hv, iv_context |-> IvContext(iv_hv),
                      vrp_context |-> VrpContext(iv_hv)]]

\* gamma_channel.extract_channel result fields for given bounds (cents):
\* width_pct in 1e-2 percent, channel_position in 1e-3.
Channel(floor, ceiling, spot) ==
    IF floor = None \/ ceiling = None
    THEN [floor |-> floor, ceiling |-> ceiling, width_pct |-> None,
          channel_position |-> None]
    ELSE [floor |-> floor, ceiling |-> ceiling,
          width_pct |-> RoundHalfEven(10000 * (ceiling - floor), spot),
          channel_position |-> IF ceiling > floor
                               THEN RoundHalfEven(1000 * (spot - floor), ceiling - floor)
                               ELSE None]

\* gamma_channel._empty_channel
EmptyChannel ==
    [floor |-> None, ceiling |-> None, width_pct |-> None, channel_position |-> None,
     floor_gex |-> 0, ceiling_gex |-> 0, degenerate |-> FALSE]

\* Python truthiness of a strike: None and 0 are false.
Truthy(x) == x \notin {None, 0}

\* The first row with the largest key (max(rows, key=...)).
FirstMaxBy(rows, key(_)) ==
    rows[CHOOSE i \in 1..Len(rows) :
             \A j \in 1..Len(rows) :
                 key(rows[i]) > key(rows[j]) \/ (key(rows[i]) = key(rows[j]) /\ i <= j)]

\* The first row with the smallest key (min(rows, key=...)).
FirstMinBy(rows, key(_)) ==
    rows[CHOOSE i \in 1..Len(rows) :
             \A j \in 1..Len(rows) :
                 key(rows[i]) < key(rows[j]) \/ (key(rows[i]) = key(rows[j]) /\ i <= j)]

\* max(abs(net_gex)) over the rows.
MaxAbsGex(gex_by_strike) ==
    Abs(FirstMaxBy(gex_by_strike, LAMBDA s : Abs(s.net_gex)).net_gex)

\* A floor search that looks on both sides of spot.
FloorStrikeAnySide(gex_by_strike, spot, max_gex) ==
    LET positive == SelectSeq(gex_by_strike, LAMBDA s : 100 * s.net_gex > 15 * max_gex)
    IN  IF positive # << >> THEN FirstMaxBy(positive, LAMBDA s : s.strike).strike ELSE None

\* Floor: the highest strike below spot with net_gex > 15% of max_gex; else
\* the strike of the largest |net_gex| among rows below spot above 10%.
FloorStrike(gex_by_strike, spot, max_gex) ==
    LET below_positive == SelectSeq(gex_by_strike, LAMBDA s :
                              s.strike < spot /\ 100 * s.net_gex > 15 * max_gex)
        below_any == SelectSeq(gex_by_strike, LAMBDA s :
                         s.strike < spot /\ 100 * Abs(s.net_gex) > 10 * max_gex)
    IN  IF below_positive # << >>
        THEN FirstMaxBy(below_positive, LAMBDA s : s.strike).strike
        ELSE IF below_any # << >>
        THEN FirstMaxBy(below_any, LAMBDA s : Abs(s.net_gex)).strike
        ELSE None

\* A ceiling fallback that mirrors the floor's: the largest |net_gex|.
CeilingFallbackLargest(above_any) == FirstMaxBy(above_any, LAMBDA s : Abs(s.net_gex)).strike

\* min(above_any, key=abs(net_gex)): the row of the smallest |net_gex|.
CeilingFallback(above_any) == FirstMinBy(above_any, LAMBDA s : Abs(s.net_gex)).strike

\* Ceiling: the lowest strike above spot with net_gex > 15% of max_gex; else
\* the fallback among rows above spot with |net_gex| above 10%.
CeilingStrike(gex_by_strike, spot, max_gex) ==
    LET above_positive == SelectSeq(gex_by_strike, LAMBDA s :
                              s.strike > spot /\ 100 * s.net_gex > 15 * max_gex)
        above_any == SelectSeq(gex_by_strike, LAMBDA s :
                         s.strike > spot /\ 100 * Abs(s.net_gex) > 10 * max_gex)
    IN  IF above_positive # << >>
        THEN FirstMinBy(above_positive, LAMBDA s : s.strike).strike
        ELSE IF above_any # << >> THEN CeilingFallback(above_any)
        ELSE None

\* gamma_channel._widen_channel (min_width_pct 1.0): on each side the nearest
\* strike beyond the bound with |net_gex| > 5% of max_gex that lies at least
\* half the minimum width from spot, else the farthest such strike, else the
\* bound itself.
WidenChannel(gex_by_strike, spot, floor, ceiling, max_gex) ==
    LET significant == {gex_by_strike[i].strike : i \in
                           {j \in 1..Len(gex_by_strike) :
                               100 * Abs(gex_by_strike[j].net_gex) > 5 * max_gex}}
        candidates_below == {k \in significant : k < floor}
        candidates_above == {k \in significant : k > ceiling}
        far_below == {k \in candidates_below : 200 * (spot - k) >= spot}
        far_above == {k \in candidates_above : 200 * (k - spot) >= spot}
        Highest(S) == CHOOSE x \in S : \A y \in S : y <= x
        Lowest(S) == CHOOSE x \in S : \A y \in S : x <= y
    IN  [floor |-> IF candidates_below = {} THEN floor
                   ELSE IF far_below # {} THEN Highest(far_below)
                   ELSE Lowest(candidates_below),
         ceiling |-> IF candidates_above = {} THEN ceiling
                     ELSE IF far_above # {} THEN Lowest(far_above)
                     ELSE Highest(candidates_above)]

\* The net_gex of the last row at a strike, 0 when there is none.
NetGexAt(gex_by_strike, strike) ==
    LET idx == {i \in 1..Len(gex_by_strike) : gex_by_strike[i].strike = strike}
    IN  IF ~Truthy(strike) \/ idx = {} THEN 0
        ELSE gex_by_strike[CHOOSE i \in idx : \A j \in idx : j <= i].net_gex

\* gamma_channel.extract_channel with the default thresholds.
extract_channel(gex_by_strike, spot) ==
    IF gex_by_strike = << >> \/ spot <= 0 THEN EmptyChannel
    ELSE LET max_gex == MaxAbsGex(gex_by_strike)
             floor0 == FloorStrike(gex_by_strike, spot, max_gex)
             ceiling0 == CeilingStrike(gex_by_strike, spot, max_gex)
             degenerate == /\ Truthy(floor0) /\ Truthy(ceiling0)
                           /\ 100 * (ceiling0 - floor0) < spot
             bounds == IF degenerate
                       THEN WidenChannel(gex_by_strike, spot, floor0, ceiling0, max_gex)
                       ELSE [floor |-> floor0, ceiling |-> ceiling0]
             both == Truthy(bounds.floor) /\ Truthy(bounds.ceiling)
         IN  IF max_gex <= 0 THEN EmptyChannel
             ELSE [floor |-> bounds.floor, ceiling |-> bounds.ceiling,
                   width_pct |-> IF both
                                 THEN RoundHalfEven(10000 * (bounds.ceiling - bounds.floor), spot)
                                 ELSE None,
                   channel_position |->
                       IF both /\ bounds.ceiling > bounds.floor
                       THEN RoundHalfEven(1000 * (spot - bounds.floor),
                                          bounds.ceiling - bounds.floor)
                       ELSE None,
                   floor_gex |-> NetGexAt(gex_by_strike, bounds.floor),
                   ceiling_gex |-> NetGexAt(gex_by_strike, bounds.ceiling),
                   degenerate |-> degenerate]

\* main.dealer_map steps 4-9: assemble the arguments of classify_thesis from
\* the branch results.  flip_point None is replaced by spot.
DealerMapArgs(spot, dte, scan, reynolds, gex, channel, pain, walls, tech) ==
    LET acf == AcfOrFallback(scan)
    IN  [spot |-> spot, acf |-> acf, reynolds |-> reynolds,
         phase |-> detect_phase_transition(acf.daily_results),
         gex_regime |-> gex.regime, channel |-> channel,
         channel_strat |-> channel_strategy(channel, gex.regime, reynolds.regime,
                                            reynolds.reynolds_number),
         max_pain |-> pain,
         call_wall |-> [strike |-> walls.call_wall],
         put_wall |-> [strike |-> walls.put_wall],
         flip_point |-> IF gex.flip_point \in {None, 0} THEN spot ELSE gex.flip_point,
         abs_gamma_strike |-> gex.abs_gamma_strike,
         total_charm |-> gex.total_charm, dte |-> dte,
         technicals |-> Technicals(tech.alignment, tech.rs_label, tech.beta, tech.atr,
                                   spot, gex.entropy, tech.iv_hv)]

\* The parameters directional_engine.classify_thesis declares.
ClassifyThesisParameters ==
    {"spot", "acf", "reynolds", "phase", "gex_regime", "channel", "channel_strat",
     "max_pain", "call_wall", "put_wall", "flip_point", "abs_gamma_strike",
     "total_charm", "total_vanna", "dte", "technicals", "total_gex"}

\* The keywords main.dealer_map passes to classify_thesis at step 9.
DealerMapKeywords == ClassifyThesisParameters \cup {"account_size"}

\* dealer_map turns every exception of its body into HTTPException(500,
\* "Analysis failed: ...").
AnalysisFailed == [raised |-> "HTTPException", detail |-> "Analysis failed"]

\* main.dealer_map from the branch results to step 9.  A keyword the callee
\* does not declare is a TypeError at the call, before the callee's body runs.
dealer_map(req) ==
    LET a == DealerMapArgs(req.spot, req.dte, req.scan, req.reynolds, req.gex,
                           req.channel, req.pain, req.walls, req.tech)
    IN  IF DealerMapKeywords \subseteq ClassifyThesisParameters
        THEN [acf |-> a.acf, phase |-> a.phase, directional |-> ClassifyThesis(a)]
        ELSE AnalysisFailed

----------------------------------------------------------------------------
(* Bounded inputs of one dealer-map request                                *)

\* Most intraday days with a defined lag-1 ACF in one scan.
MaxDays == 2

LagValues == {-2000, -800, 0, 300, 800, 2000}

DayLists == UNION {[1..n -> LagValues] : n \in 0..MaxDays}

SeiReadings == {EmptySei,
                [sei |-> 100000, regime |-> "MODERATE_EXCITATION"],
                [sei |-> 200000, regime |-> "HIGH_EXCITATION"]}

ScanResults == {ScanTickerAcf(d, s) : d \in DayLists, s \in SeiReadings}

\* Unrounded ratios; 1.00004 is reported as 1.0 with regime TURBULENT.
ReValues == {Rat(3, 10), Rat(13, 20), Rat(8, 10), Rat(1, 1), Rat(100004, 100000),
             Rat(3, 2), Rat(5, 2), Inf}

ReynoldsReadings ==
    {[reynolds_number |-> ReportedReynolds(r), regime |-> ReynoldsRegimeOf(r)] : r \in ReValues}
    \cup {[reynolds_number |-> 0, regime |-> "UNKNOWN"]}

Betas == {20, 100, 150}

EntropyRegimes == {"CRITICAL", "APPROACHING", "MODERATE", "DISPERSED"}

GexRegimes == {"POSITIVE_GAMMA", "NEGATIVE_GAMMA"}

Spots == {10000}

Gex(regime, flip_point, total_charm, entropy) ==
    [regime |-> regime, flip_point |-> flip_point, total_charm |-> total_charm,
     entropy |-> entropy, abs_gamma_strike |-> 10000]

Walls(call_wall, put_wall) == [call_wall |-> call_wall, put_wall |-> put_wall]

Tech(alignment, rs_label, beta, atr, iv_hv) ==
    [alignment |-> alignment, rs_label |-> rs_label, beta |-> beta, atr |-> atr,
     iv_hv |-> iv_hv]

\* Requests that vary the flow and price-action readings.
ThesisInputs ==
    {DealerMapArgs(spot, 10, scan, re, Gex(g, 9800, 0, e), Channel(9500, 10500, spot),
                   10000, Walls(10500, 9500), Tech(0, "IN_LINE", b, 200, 100)) :
        spot \in Spots, scan \in ScanResults, re \in ReynoldsReadings, g \in GexRegimes,
        e \in EntropyRegimes, b \in Betas}

\* Requests that vary the technicals and the positioning levels.
BiasInputs ==
    {DealerMapArgs(spot, 10, ScanTickerAcf(<<v>>, EmptySei), re,
                   Gex("POSITIVE_GAMMA", flip, 0, "DISPERSED"),
                   Channel(9500, 10500, spot), pain, Walls(10500, 9500),
                   Tech(al, rs, 100, 200, 100)) :
        spot \in Spots, v \in LagValues,
        re \in {r \in ReynoldsReadings : r.reynolds_number \in {3000, 8000, 15000}},
        flip \in {None, 9800, 10300}, pain \in {9500, 10000, 10500},
        al \in -3..3, rs \in RsLabels}

Channels(spot) == {Channel(None, None, spot), Channel(9500, 10500, spot),
                  Channel(9900, 10500, spot), Channel(9500, 10100, spot)}

\* Requests that vary what the position builder reads.
PositionInputs ==
    {DealerMapArgs(spot, dte, ScanTickerAcf(<<v>>, EmptySei), re,
                   Gex(g, 9800, charm, "DISPERSED"), ch, pain, Walls(cw, 9500),
                   Tech(0, "IN_LINE", b, atr, iv)) :
        spot \in Spots, v \in LagValues,
        re \in {r \in ReynoldsReadings : r.reynolds_number \in {3000, 8000, 15000}},
        g \in GexRegimes, charm \in {-20000, 0, 20000}, ch \in Channels(10000),
        pain \in {9500, 10500}, cw \in {0, 10500}, b \in {20, 100},
        atr \in {0, 200}, iv \in {80, 100, 170}, dte \in {3, 10}}

----------------------------------------------------------------------------
(* Specifications: one call of classify_thesis per behaviour               *)

CallClassifyThesis ==
    /\ pc = "classify_thesis"
    /\ ret' = ClassifyThesis(args)
    /\ pc' = "classify_thesis.return"
    /\ UNCHANGED args

InitThesis == pc = "classify_thesis" /\ args \in ThesisInputs /\ ret = NoResult

NextThesis == CallClassifyThesis

SpecThesis == InitThesis /\ [][NextThesis]_vars

InitBias == pc = "classify_thesis" /\ args \in BiasInputs /\ ret = NoResult

SpecBias == InitBias /\ [][NextThesis]_vars

InitPositions == pc = "classify_thesis" /\ args \in PositionInputs /\ ret = NoResult

SpecPositions == InitPositions /\ [][NextThesis]_vars


----------------------------------------------------------------------------
(* Claims about classify_thesis                                            *)

\* The effective ratio R of a request: reynolds_number / max(beta, 0.3),
\* raised to at least 1.05 under CRITICAL entropy with TRANSITIONAL flow.
C1_Forced(a) ==
    a.technicals.gex_entropy.regime = "CRITICAL" /\ a.reynolds.regime = "TRANSITIONAL"

C1_RGt1(a) ==
    \/ C1_Forced(a)
    \/ a.reynolds.reynolds_number
         > 100 * Max(a.technicals.relative_strength.beta_60d, 30)

C1_RLt07(a) ==
    /\ ~C1_Forced(a)
    /\ 10 * a.reynolds.reynolds_number
         < 7 * 100 * Max(a.technicals.relative_strength.beta_60d, 30)

C1_Momentum(a) ==
    \/ /\ a.acf.pct_amplified > a.acf.pct_dampened
       /\ (a.acf.pct_amplified > 130 \/ a.acf.mean_acf1 > 500)
    \/ /\ a.acf.self_excitation.regime \in {"HIGH_EXCITATION", "MODERATE_EXCITATION"}
       /\ a.acf.mean_acf1 > 0

C1_FirstMatchingRule(a) ==
    CASE C1_RGt1(a) /\ C1_Momentum(a) -> "MOMENTUM_BREAKOUT"
      [] C1_RGt1(a) /\ ~C1_Momentum(a) -> "MOMENTUM_EARLY"
      [] OTHER ->
         IF /\ a.acf.pct_amplified > a.acf.pct_dampened
            /\ a.acf.pct_amplified > 130
            /\ C1_RLt07(a)
         THEN "CONFLICTED_PIN"
         ELSE IF a.acf.regime = "SHORT_GAMMA" \/ a.acf.mean_acf1 > 500
         THEN "MOMENTUM_TREND"
         ELSE IF a.acf.regime = "LONG_GAMMA" /\ a.acf.mean_acf1 < -1000
         THEN "FADE_MOVES"
         ELSE IF a.acf.regime = "LONG_GAMMA" THEN "FADE_MILD"
         ELSE "NEUTRAL"

\* C1: classify_thesis is total and returns exactly one of the seven theses,
\* the one of the first matching rule in the fixed order (flow rules on the
\* effective ratio first, then the pin rule, then the ACF rules, else
\* NEUTRAL); whenever R > 1 the thesis is MOMENTUM_BREAKOUT or MOMENTUM_EARLY
\* whatever the ACF reading is.
C1_ThesisIsFirstMatchingRule ==
    /\ pc = "classify_thesis" => ClassifyThesis(args).thesis \in Theses
    /\ pc = "classify_thesis.return" =>
          /\ ret.thesis \in Theses
          /\ ret.thesis = C1_FirstMatchingRule(args)
          /\ C1_RGt1(args) => ret.thesis \in {"MOMENTUM_BREAKOUT", "MOMENTUM_EARLY"}

\* Flow and price action conflict: R > 1 while the ACF reads LONG_GAMMA.
C1_Witness ==
    /\ pc = "classify_thesis.return"
    /\ C1_RGt1(args)
    /\ args.acf.regime = "LONG_GAMMA"
    /\ args.acf.mean_acf1 < -1000
    /\ ret.thesis = "MOMENTUM_EARLY"

HasPosition(positions, type) == \E i \in 1..Len(positions) : positions[i].type = type

\* C2: every entry of positions is a BUY of a CALL or a PUT, except the
\* single WAIT entry, which is present exactly when the thesis is NEUTRAL;
\* the channel and charm-drift entries are added on their own preconditions
\* whatever the thesis is.
C2_BuyOnly ==
    pc = "classify_thesis.return" =>
        LET ps == ret.positions
            waits == {i \in 1..Len(ps) : ps[i].action = "WAIT"}
        IN  /\ \A i \in 1..Len(ps) :
                   \/ ps[i].action = "BUY" /\ ps[i].option_type \in {"CALL", "PUT"}
                   \/ ps[i].action = "WAIT" /\ ps[i].type = "skip"
            /\ Cardinality(waits) = IF ret.thesis = "NEUTRAL" THEN 1 ELSE 0
            /\ HasPosition(ps, "charm_drift")
                   <=> (args.dte <= 5 /\ Abs(args.total_charm) > 10000)
            /\ HasPosition(ps, "gex_floor_bounce")
                   <=> (args.channel_strat.strategy = "GEX_FLOOR_BOUNCE"
                        /\ args.channel.floor \notin {None, 0})
            /\ HasPosition(ps, "gex_ceiling_fade")
                   <=> (args.channel_strat.strategy = "GEX_CEILING_FADE"
                        /\ args.channel.ceiling \notin {None, 0})

\* A NEUTRAL bundle whose skip entry coexists with a channel and a charm entry.
C2_Witness ==
    /\ pc = "classify_thesis.return"
    /\ ret.thesis = "NEUTRAL"
    /\ HasPosition(ret.positions, "skip")
    /\ HasPosition(ret.positions, "gex_floor_bounce")
    /\ HasPosition(ret.positions, "charm_drift")

C3_Direction(a, thesis) ==
    LET score == a.technicals.trend.trend_score
        al == a.technicals.moving_averages.alignment
    IN  IF Abs(score) >= 2 THEN (IF score > 0 THEN "BULLISH" ELSE "BEARISH")
        ELSE IF Abs(al) >= 3 THEN (IF al > 0 THEN "BULLISH" ELSE "BEARISH")
        ELSE IF thesis \in MomentumTheses
        THEN (IF a.spot > a.flip_point THEN "BULLISH" ELSE "BEARISH")
        ELSE (IF a.spot < a.max_pain THEN "BULLISH" ELSE "BEARISH")

\* C3: for momentum and fade theses a strong technical signal decides the
\* bias direction (sign of trend_score when |trend_score| >= 2, otherwise
\* sign of the MA alignment when |alignment| >= 3); only without one does
\* the direction come from spot vs flip point (momentum) or spot vs max pain
\* (fade).
C3_TechnicalsOverrideDirection ==
    (pc = "classify_thesis.return" /\ ret.thesis \in MomentumTheses \cup FadeTheses)
        => ret.bias.direction = C3_Direction(args, ret.thesis)

\* A momentum bundle whose strong bearish technicals overrode a bullish
\* flip-point reading.
C3_Witness ==
    /\ pc = "classify_thesis.return"
    /\ ret.thesis \in MomentumTheses
    /\ args.spot > args.flip_point
    /\ args.technicals.trend.trend_score = -2
    /\ ret.bias.direction = "BEARISH"

\* A fade bundle whose full-bull alignment overrode a bearish max-pain reading.
C3_WitnessFade ==
    /\ pc = "classify_thesis.return"
    /\ ret.thesis \in FadeTheses
    /\ args.spot > args.max_pain
    /\ args.technicals.trend.trend_score = 1
    /\ args.technicals.moving_averages.alignment = 3
    /\ ret.bias.direction = "BULLISH"

----------------------------------------------------------------------------
(* Specification: one call of _kelly_size per behaviour                    *)

\* edge_pct values in 1e-3 percent.
EdgeValues == {-5000, 0, 1000, 50000, 60000, 75000, 100000, 150000, 200000, 500000}

WinProbs == -1..101

IvHvValues == {80, 100, 140, 170}

VrpContexts == {"HIGH_PREMIUM", "MODERATE_PREMIUM", "SMALL_PREMIUM", "FAIR", "DISCOUNT"}

KellyInputs ==
    [edge_pct : EdgeValues, win_prob : WinProbs, iv_hv_ratio : IvHvValues,
     vrp_context : VrpContexts]

CallKellySize ==
    /\ pc = "_kelly_size"
    /\ ret' \in KellySizes(args.edge_pct, args.win_prob, args.iv_hv_ratio, args.vrp_context)
    /\ pc' = "_kelly_size.return"
    /\ UNCHANGED args

InitKelly == pc = "_kelly_size" /\ args \in KellyInputs /\ ret = NoResult

NextKelly == CallKellySize

SpecKelly == InitKelly /\ [][NextKelly]_vars

\* C4: _kelly_size returns 0 exactly when edge <= 0 or win probability <= 0;
\* every other result lies in [0.25%, 5%], and a result strictly inside the
\* clamp is the one-decimal rounding of max(0, (b*p - q)/b / 2) * scale * 100
\* with b = max(edge/100, 0.5) and p = min(winProb/100, 0.9).
C4_KellyRange ==
    pc = "_kelly_size.return" =>
        LET zero == args.edge_pct <= 0 \/ args.win_prob <= 0
            b == IF args.edge_pct > 50000 THEN args.edge_pct ELSE 50000
            p == IF args.win_prob < 90 THEN args.win_prob ELSE 90
            half_kelly == IF b * p > (100 - p) * 100000
                          THEN b * p - (100 - p) * 100000 ELSE 0
            scale == RegimeScale(args.iv_hv_ratio, args.vrp_context)
        IN  /\ ret = 0 <=> zero
            /\ ~zero => (25 <= ret /\ ret <= 500)
            /\ (25 < ret /\ ret < 500) =>
                  /\ ret % 10 = 0
                  /\ Abs((ret \div 10) * 2 * b - half_kelly * scale) <= b
            /\ (~zero /\ half_kelly = 0) => ret = 25

\* A negative full-Kelly fraction floored at 0 and then lifted to the 0.25% floor.
C4_Witness ==
    /\ pc = "_kelly_size.return"
    /\ args.edge_pct > 0 /\ args.win_prob > 0
    /\ args.win_prob * Max(args.edge_pct, 50000) < (100 - args.win_prob) * 100000
    /\ ret = 25

\* The IV contexts of the call in args: expensive takes the 0.7 or 0.8
\* multiplier, cheap the 1.2 multiplier.
ExpensiveContext ==
    \/ args.iv_hv_ratio > 150
    \/ args.vrp_context = "HIGH_PREMIUM"
    \/ (args.iv_hv_ratio > 130 /\ args.vrp_context = "MODERATE_PREMIUM")

CheapContext ==
    /\ ~ExpensiveContext
    /\ (args.iv_hv_ratio < 90 \/ args.vrp_context = "DISCOUNT")

\* C5 as stated: at equal edge and win probability (both > 0) an expensive
\* IV context (multiplier 0.7 or 0.8) yields a strictly smaller size than the
\* fair context, and a cheap one (1.2) never a smaller size.
C5_ExpensiveStrictlySmaller ==
    (/\ pc = "_kelly_size.return"
     /\ args.edge_pct > 0 /\ args.win_prob > 0)
        => \A fair \in KellySizes(args.edge_pct, args.win_prob, 100, "FAIR") :
               /\ ExpensiveContext => ret < fair
               /\ CheapContext => ret >= fair

\* C5 amended: an expensive IV context never yields a larger size than fair
\* IV, and a strictly smaller one whenever the fair size is above 0.5% and
\* below the 5% cap; a cheap context never yields a smaller size.
C5_ExpensiveNeverLarger ==
    (/\ pc = "_kelly_size.return"
     /\ args.edge_pct > 0 /\ args.win_prob > 0)
        => \A fair \in KellySizes(args.edge_pct, args.win_prob, 100, "FAIR") :
               /\ ExpensiveContext => ret <= fair
               /\ (ExpensiveContext /\ 50 < fair /\ fair < 500) => ret < fair
               /\ CheapContext => ret >= fair

\* An expensive context that strictly reduces an unclamped fair size.
C5_Witness ==
    /\ pc = "_kelly_size.return"
    /\ args.edge_pct > 0 /\ args.win_prob > 0
    /\ ExpensiveContext
    /\ \E fair \in KellySizes(args.edge_pct, args.win_prob, 100, "FAIR") :
          fair \in 51..499 /\ ret < fair

----------------------------------------------------------------------------
(* Specification: one call of _estimate_wall_break_probability             *)

\* (atr_dollar, dte, call_wall_strike, put_wall_strike) around spot 100.00:
\* no ATR, a wall at spot, near walls, far walls, missing walls.
WallGeometries ==
    { <<0, 10, 10500, 9500>>, <<200, 0, 10500, 9500>>, <<200, 10, 10000, 9500>>,
      <<200, 1, 10100, 9500>>, <<200, 10, 10500, 9500>>, <<200, 10, 13000, 7000>>,
      <<200, 60, 10500, 9500>>, <<200, 1, 13000, 5000>>, <<200, 10, 0, 0>>,
      <<200, 10, 0, 9200>> }

WallBreakInputs ==
    { [re_gamma |-> re, acf1 |-> a1, pct_amp |-> pa[1], pct_damp |-> pa[2],
       phase_regime |-> ph, beta |-> b, atr_dollar |-> g[1], dte |-> g[2],
       call_wall_strike |-> g[3], put_wall_strike |-> g[4], spot |-> spot,
       sei |-> sei, entropy_regime |-> e, gex_regime |-> gr] :
        re \in {0, 5000, 8000, 15000, 30000, 990000},
        a1 \in {-2000, -800, 0, 800, 2000},
        pa \in {<<0, 0>>, <<200, 100>>},
        ph \in {"LAMINAR", "APPROACHING", "TURBULENT"},
        b \in {100, 150}, g \in WallGeometries, spot \in Spots,
        sei \in {0, 100000, 200000}, e \in EntropyRegimes, gr \in GexRegimes }

CallEstimateWallBreak ==
    /\ pc = "_estimate_wall_break_probability"
    /\ ret' = EstimateWallBreakProbability(
                  args.re_gamma, args.acf1, args.pct_amp, args.pct_damp,
                  args.phase_regime, args.beta, args.atr_dollar, args.dte,
                  args.call_wall_strike, args.put_wall_strike, args.spot,
                  args.sei, args.entropy_regime, args.gex_regime)
    /\ pc' = "_estimate_wall_break_probability.return"
    /\ UNCHANGED args

InitWallBreak ==
    pc = "_estimate_wall_break_probability" /\ args \in WallBreakInputs /\ ret = NoResult

NextWallBreak == CallEstimateWallBreak

SpecWallBreak == InitWallBreak /\ [][NextWallBreak]_vars

\* The estimate before the clamp, in 1e-5 percent: the additive bonuses times
\* the collision-reachability multiplier of the nearest wall.
WallBreakUnclamped ==
    LET p_cw == IF args.call_wall_strike > 0 /\ args.spot > 0
                THEN CollisionProbability(args.spot, args.call_wall_strike,
                                          args.atr_dollar, args.dte)
                ELSE 5000
        p_pw == IF args.put_wall_strike > 0 /\ args.spot > 0
                THEN CollisionProbability(args.spot, args.put_wall_strike,
                                          args.atr_dollar, args.dte)
                ELSE 5000
        p == Max(p_cw, p_pw)
        bonuses == WallBreakBonuses(re_gamma_adj(args.re_gamma, args.beta), args.acf1,
                                    args.phase_regime, args.sei,
                                    args.entropy_regime, args.gex_regime)
    IN  IF p > 500 /\ p < 9500 THEN bonuses * CollisionAdj(p) ELSE bonuses * 100000

\* C6: whatever the additive bonuses and the collision multiplier are, the
\* returned wall-break probability lies in [5, 95].
C6_WallBreakClamped ==
    pc = "_estimate_wall_break_probability.return" =>
        (5 <= ret.probability /\ ret.probability <= 95)

\* The bonuses times the multiplier exceed 95 and the result is cut to 95.
C6_Witness ==
    /\ pc = "_estimate_wall_break_probability.return"
    /\ WallBreakUnclamped > 9500000
    /\ ret.probability = 95

\* The bonuses sum below 5 (here below 0) and the result is lifted to 5.
C6_WitnessFloor ==
    /\ pc = "_estimate_wall_break_probability.return"
    /\ WallBreakUnclamped < 0
    /\ ret.probability = 5

----------------------------------------------------------------------------
(* Specification: one call of compute_gamma_reynolds                       *)

MaxOptions == 2

\* Call rows: at the money with volume = OI, 0.7 * OI and no volume; the
\* edge of the 10% band; far out of the money; tiny and underflowing
\* proxies; a row without strike; a row without IV.
CallSamples ==
    { Option(10000, 10, 10, 30), Option(10000, 7, 10, 30), Option(10000, 0, 5, 30),
      Option(11000, 10, 5, 30), Option(15000, 10, 10, 30), Option(11000, 5, 10, 1),
      Option(15000, 5, 5, 1), Option(0, 5, 5, 30), Option(10000, 9, 1, 0) }

PutSamples ==
    { Option(10000, 3, 10, 30), Option(9000, 5, 5, 30), Option(10000, 0, 0, 30),
      Option(11000, 1, 10, 1), Option(10000, 2, 9, 30) }

SeqsUpTo(S, n) == UNION {[1..k -> S] : k \in 0..n}

ReynoldsInputs ==
    [calls : SeqsUpTo(CallSamples, MaxOptions), puts : SeqsUpTo(PutSamples, MaxOptions),
     spot : {-100, 0, 10000}]

CallComputeGammaReynolds ==
    /\ pc = "compute_gamma_reynolds"
    /\ ret' = compute_gamma_reynolds(args.calls, args.puts, args.spot)
    /\ pc' = "compute_gamma_reynolds.return"
    /\ UNCHANGED args

InitReynolds == pc = "compute_gamma_reynolds" /\ args \in ReynoldsInputs /\ ret = NoResult

NextReynolds == CallComputeGammaReynolds

SpecReynolds == InitReynolds /\ [][NextReynolds]_vars

\* The gamma-weighted sums of the chain in args (1e-6 * spot^2): speculative
\* from near-the-money call volume, dealer from call OI minus put OI.
C7_Weight(o) == IF o.strike > 0 THEN GammaProxy(o.strike, OptionIv(o)) ELSE 0

C7_Speculative ==
    SumOver(args.calls, [o \in CallSamples |->
        IF NearAtm(o, args.spot) THEN C7_Weight(o) * o.volume ELSE 0])

C7_SpeculativePositive ==
    \/ C7_Speculative > 0
    \/ \E i \in 1..Len(args.calls) :
          /\ NearAtm(args.calls[i], args.spot) /\ args.calls[i].volume > 0
          /\ GammaProxyTiny(args.calls[i].strike, OptionIv(args.calls[i]))

C7_Dealer ==
    SumOver(args.calls, [o \in CallSamples |-> C7_Weight(o) * o.openInterest])
    - SumOver(args.puts, [o \in PutSamples |-> C7_Weight(o) * o.openInterest])

\* C7: the reported ratio is in [0, 99]; the reading is UNKNOWN with ratio 0
\* when the calls or the puts are empty or spot <= 0; a vanishing dealer sum
\* gives TURBULENT / 99 with speculative flow and LAMINAR / 0 without;
\* otherwise the regime compares |speculative / dealer| with 1 and 0.7 and
\* the reported ratio is that ratio capped at 99 and rounded.
C7_ReynoldsRatioAndRegime ==
    pc = "compute_gamma_reynolds.return" =>
        LET S == C7_Speculative
            D == Abs(C7_Dealer)
        IN  /\ 0 <= ret.reynolds_number /\ ret.reynolds_number <= 990000
            /\ IF args.calls = << >> \/ args.puts = << >> \/ args.spot <= 0
               THEN ret.regime = "UNKNOWN" /\ ret.reynolds_number = 0
               ELSE IF D = 0
               THEN IF C7_SpeculativePositive
                    THEN ret.regime = "TURBULENT" /\ ret.reynolds_number = 990000
                    ELSE ret.regime = "LAMINAR" /\ ret.reynolds_number = 0
               ELSE /\ ret.regime = (IF S > D THEN "TURBULENT"
                                     ELSE IF 10 * S > 7 * D THEN "TRANSITIONAL"
                                     ELSE "LAMINAR")
                    /\ S \div D >= 99 => ret.reynolds_number = 990000
                    /\ S \div D < 99 =>
                          /\ ret.reynolds_number \div 10000 \in {S \div D, S \div D + 1}
                          /\ (ret.regime = "TURBULENT" => ret.reynolds_number >= 10000)
                          /\ (ret.regime = "TRANSITIONAL" =>
                                 (7000 <= ret.reynolds_number /\ ret.reynolds_number <= 10000))
                          /\ (ret.regime = "LAMINAR" => ret.reynolds_number <= 7000)

\* Call OI and put OI cancel while calls trade: the ratio is infinite and
\* reported as 99, TURBULENT.
C7_Witness ==
    /\ pc = "compute_gamma_reynolds.return"
    /\ args.spot > 0 /\ Len(args.calls) > 0 /\ Len(args.puts) > 0
    /\ C7_Dealer = 0 /\ C7_Speculative > 0
    /\ ret.regime = "TURBULENT" /\ ret.reynolds_number = 990000

\* A finite ratio above the cap.
C7_WitnessCapped ==
    /\ pc = "compute_gamma_reynolds.return"
    /\ C7_Dealer # 0 /\ C7_Speculative \div Abs(C7_Dealer) >= 99
    /\ ret.reynolds_number = 990000

----------------------------------------------------------------------------
(* Specification: one call of calculate_gex_profile                        *)

GexRow(strike, openInterest) == [strike |-> strike, openInterest |-> openInterest]

\* Heavy call open interest at 110, light rows elsewhere, a deep strike with
\* negligible gamma and a row without strike.
GexCallSamples ==
    { GexRow(11000, 20), GexRow(11000, 3), GexRow(10000, 3), GexRow(10500, 3),
      GexRow(9500, 2), GexRow(5000, 3), GexRow(0, 5), GexRow(10000, 0) }

GexPutSamples ==
    { GexRow(10000, 3), GexRow(10000, 5), GexRow(9500, 3), GexRow(10500, 4),
      GexRow(9000, 3), GexRow(11000, 1), GexRow(5000, 4), GexRow(10500, 0) }

GexInputs ==
    [calls : SeqsUpTo(GexCallSamples, MaxOptions), puts : SeqsUpTo(GexPutSamples, MaxOptions),
     spot : {0, 10000}]

CallCalculateGexProfile ==
    /\ pc = "calculate_gex_profile"
    /\ ret' = calculate_gex_profile(args.calls, args.puts, args.spot)
    /\ pc' = "calculate_gex_profile.return"
    /\ UNCHANGED args

InitGex == pc = "calculate_gex_profile" /\ args \in GexInputs /\ ret = NoResult

NextGex == CallCalculateGexProfile

SpecGex == InitGex /\ [][NextGex]_vars

\* Adjacent rows of the returned profile whose net_gex signs are opposite.
C8_Crossings ==
    {i \in 1..(Len(ret.gex_by_strike) - 1) :
        \/ (ret.gex_by_strike[i].net_gex < 0 /\ ret.gex_by_strike[i + 1].net_gex > 0)
        \/ (ret.gex_by_strike[i].net_gex > 0 /\ ret.gex_by_strike[i + 1].net_gex < 0)}

\* Distance from spot of the interpolated crossing between rows i and i + 1,
\* in cents.
C8_Distance(i) ==
    Abs(Crossing(ret.gex_by_strike[i], ret.gex_by_strike[i + 1]) - args.spot)

\* The aggregate GEX of the chain in args (call exposure minus put exposure).
C8_TotalGex ==
    LET strikes == [i \in 1..Len(ret.gex_by_strike) |-> ret.gex_by_strike[i].strike]
    IN  TotalGex(args.calls, args.puts, args.spot, strikes)

\* C8: flip_point is None exactly when no two adjacent strikes have net_gex
\* of strictly opposite signs, and then the regime is POSITIVE_GAMMA iff the
\* aggregate GEX is >= 0; otherwise flip_point is the interpolated crossing
\* of one such pair, lies between the pair's strikes, and no other crossing
\* is nearer to spot.
C8_FlipPoint ==
    pc = "calculate_gex_profile.return" =>
        /\ ret.flip_point = None <=> C8_Crossings = {}
        /\ ret.flip_point = None =>
              (ret.regime = "POSITIVE_GAMMA" <=> C8_TotalGex >= 0)
        /\ ret.regime \in {"POSITIVE_GAMMA", "NEGATIVE_GAMMA"}
        /\ ret.flip_point # None =>
              \E i \in C8_Crossings :
                  /\ ret.flip_point = Crossing(ret.gex_by_strike[i], ret.gex_by_strike[i + 1])
                  /\ ret.gex_by_strike[i].strike <= ret.flip_point
                  /\ ret.flip_point <= ret.gex_by_strike[i + 1].strike
                  /\ \A j \in C8_Crossings : C8_Distance(i) <= C8_Distance(j)

\* Several sign changes, and the one nearest to spot is not the lowest.
C8_Witness ==
    /\ pc = "calculate_gex_profile.return"
    /\ Cardinality(C8_Crossings) >= 2
    /\ \E i \in C8_Crossings : \E j \in C8_Crossings :
          i < j /\ C8_Distance(j) < C8_Distance(i)
    /\ ret.flip_point # None

\* No sign change and a negative aggregate.
C8_WitnessNone ==
    /\ pc = "calculate_gex_profile.return"
    /\ Len(ret.gex_by_strike) >= 2
    /\ ret.flip_point = None
    /\ ret.regime = "NEGATIVE_GAMMA"

\* The scenario of C9: spot 100, heavy call open interest (20 contracts
\* against at most 5 elsewhere) at strike 110.
C9_HeavyCallsAt110 ==
    /\ args.spot = 10000
    /\ OpenInterestAt(args.calls, 11000) = 20

\* C9 as stated: heavy call OI at 110, spot 100 and a flip point between 100
\* and 110 give regime POSITIVE_GAMMA and abs_gamma_strike 110.
C9_PositiveGammaBelowFlip ==
    (/\ pc = "calculate_gex_profile.return"
     /\ C9_HeavyCallsAt110
     /\ 10000 <= ret.flip_point /\ ret.flip_point <= 11000)
        => (ret.regime = "POSITIVE_GAMMA" /\ ret.abs_gamma_strike = 11000)

\* C9 amended: with the flip point above spot (100 < flip <= 110) the regime
\* is NEGATIVE_GAMMA, POSITIVE_GAMMA only for a flip point of exactly 100;
\* abs_gamma_strike is 110 when the row at 110 has the largest |net_gex|.
C9_NegativeGammaBelowFlip ==
    (/\ pc = "calculate_gex_profile.return"
     /\ C9_HeavyCallsAt110
     /\ 10000 <= ret.flip_point /\ ret.flip_point <= 11000)
        => /\ ret.flip_point > 10000 => ret.regime = "NEGATIVE_GAMMA"
           /\ ret.flip_point = 10000 => ret.regime = "POSITIVE_GAMMA"
           /\ (\E k \in 1..Len(ret.gex_by_strike) :
                  /\ ret.gex_by_strike[k].strike = 11000
                  /\ \A i \in 1..Len(ret.gex_by_strike) :
                        i # k => Abs(ret.gex_by_strike[i].net_gex)
                                     < Abs(ret.gex_by_strike[k].net_gex))
                 => ret.abs_gamma_strike = 11000

\* Puts at 100, heavy calls at 110: the flip point lies strictly between,
\* spot is below it, the largest exposure is at 110.
C9_Witness ==
    /\ pc = "calculate_gex_profile.return"
    /\ C9_HeavyCallsAt110
    /\ 10000 < ret.flip_point /\ ret.flip_point < 11000
    /\ ret.regime = "NEGATIVE_GAMMA"
    /\ ret.abs_gamma_strike = 11000

----------------------------------------------------------------------------
(* Specification: one call of calculate_max_pain                           *)

PainSamples ==
    { GexRow(9500, 5), GexRow(10000, 5), GexRow(10000, 1), GexRow(10500, 5),
      GexRow(10500, 1), GexRow(9500, 0) }

MaxPainInputs ==
    [calls : SeqsUpTo(PainSamples, MaxOptions), puts : SeqsUpTo(PainSamples, MaxOptions)]

CallCalculateMaxPain ==
    /\ pc = "calculate_max_pain"
    /\ ret' = calculate_max_pain(args.calls, args.puts)
    /\ pc' = "calculate_max_pain.return"
    /\ UNCHANGED args

InitMaxPain == pc = "calculate_max_pain" /\ args \in MaxPainInputs /\ ret = NoResult

NextMaxPain == CallCalculateMaxPain

SpecMaxPain == InitMaxPain /\ [][NextMaxPain]_vars

\* Every reordering of a sequence.
Reorderings(q) ==
    {[i \in 1..Len(q) |-> q[f[i]]] :
        f \in {g \in [1..Len(q) -> 1..Len(q)] :
                  \A i \in 1..Len(q) : \A j \in 1..Len(q) : g[i] = g[j] => i = j}}

\* The strikes listed in either leg of the chain in args.
C10_Listed ==
    {args.calls[i].strike : i \in 1..Len(args.calls)}
    \cup {args.puts[i].strike : i \in 1..Len(args.puts)}

\* total_pain(s) = sum over calls of max(0, s - k) * OI * 100
\*               + sum over puts of max(0, k - s) * OI * 100, in dollars.
C10_TotalPain(s) ==
    LET call_pain == [i \in 1..Len(args.calls) |->
                         Max(0, s - args.calls[i].strike) * args.calls[i].openInterest]
        put_pain == [i \in 1..Len(args.puts) |->
                        Max(0, args.puts[i].strike - s) * args.puts[i].openInterest]
    IN  SumSeq(call_pain) + SumSeq(put_pain)

\* C10: max_pain is a listed strike of minimal total_pain, the lowest such
\* strike; every permutation of the call and put records gives the same
\* result; a single-strike chain returns its strike with pain 0; an empty
\* chain returns max_pain 0 and an empty table.
C10_MaxPain ==
    pc = "calculate_max_pain.return" =>
        IF C10_Listed = {}
        THEN ret.max_pain = 0 /\ ret.pain_by_strike = << >>
        ELSE /\ ret.max_pain \in C10_Listed
             /\ ret.max_pain_value = C10_TotalPain(ret.max_pain)
             /\ \A s \in C10_Listed :
                   \/ C10_TotalPain(ret.max_pain) < C10_TotalPain(s)
                   \/ (C10_TotalPain(ret.max_pain) = C10_TotalPain(s) /\ ret.max_pain <= s)
             /\ \A c \in Reorderings(args.calls) : \A p \in Reorderings(args.puts) :
                   calculate_max_pain(c, p) = ret
             /\ Cardinality(C10_Listed) = 1 =>
                   (ret.max_pain \in C10_Listed /\ ret.max_pain_value = 0)

\* Two strikes tie for the minimum, the rows list the higher one first, and
\* the lower one is returned.
C10_Witness ==
    /\ pc = "calculate_max_pain.return"
    /\ Len(args.calls) > 0 /\ Len(args.puts) > 0
    /\ \E s \in C10_Listed :
          s > ret.max_pain /\ C10_TotalPain(s) = C10_TotalPain(ret.max_pain)
    /\ (args.calls \o args.puts)[1].strike > ret.max_pain

----------------------------------------------------------------------------
(* Chains with invalid rows, read by every chain consumer                  *)

\* Rows with a strike at, above and below the money, a row with strike 0 and
\* a row without the strike key.
ChainSamples ==
    { Option(10000, 10, 5, 30), Option(11000, 5, 3, 30), Option(9000, 5, 3, 30),
      Option(0, 50, 5, 30),
      [volume |-> 50, openInterest |-> 1, impliedVolatility |-> 30] }

ChainInputs ==
    [calls : SeqsUpTo(ChainSamples, MaxOptions), puts : SeqsUpTo(ChainSamples, MaxOptions),
     spot : {10000}]

CallFindOiWalls ==
    /\ pc = "find_oi_walls"
    /\ ret' = find_oi_walls(args.calls, args.puts, args.spot)
    /\ pc' = "find_oi_walls.return"
    /\ UNCHANGED args

InitChain ==
    /\ pc \in {"calculate_gex_profile", "calculate_max_pain", "find_oi_walls",
               "compute_gamma_reynolds"}
    /\ args \in ChainInputs
    /\ ret = NoResult

NextChain ==
    \/ CallCalculateGexProfile
    \/ CallCalculateMaxPain
    \/ CallFindOiWalls
    \/ CallComputeGammaReynolds

SpecChain == InitChain /\ [][NextChain]_vars

\* The rows of a leg that have a strike above 0.
C11_Valid(leg) == SelectSeq(leg, LAMBDA c : HasStrike(c) /\ c.strike > 0)

\* C11: in every chain consumer (GEX profile, max pain, OI walls, flow
\* detector) a row that lacks a strike or has strike <= 0 is skipped: no
\* exception is raised and the result equals the result on the valid rows.
C11_InvalidRowsSkipped ==
    LET calls == C11_Valid(args.calls)
        puts == C11_Valid(args.puts)
    IN  /\ pc = "calculate_gex_profile.return" =>
               ret = calculate_gex_profile(calls, puts, args.spot)
        /\ pc = "calculate_max_pain.return" =>
               ret # KeyError /\ ret = calculate_max_pain(calls, puts)
        /\ pc = "find_oi_walls.return" =>
               ret # KeyError /\ ret = find_oi_walls(calls, puts, args.spot)
        /\ pc = "compute_gamma_reynolds.return" =>
               ret = compute_gamma_reynolds(calls, puts, args.spot)

\* The GEX profile builder alone does skip invalid rows.
C11_GexProfileSkips ==
    pc = "calculate_gex_profile.return" =>
        ret = calculate_gex_profile(C11_Valid(args.calls), C11_Valid(args.puts), args.spot)

\* A call row without strike next to a valid put row makes max pain raise.
C11_MaxPainRaises ==
    /\ pc = "calculate_max_pain.return"
    /\ args.calls = << [volume |-> 50, openInterest |-> 1, impliedVolatility |-> 30] >>
    /\ args.puts = << Option(10000, 10, 5, 30) >>
    /\ ret = KeyError

----------------------------------------------------------------------------
(* One dealer-map request                                                  *)

DealerMapRequests ==
    [spot : Spots, dte : {10}, scan : ScanResults, reynolds : ReynoldsReadings,
     gex : {Gex(g, 9800, 0, e) : g \in GexRegimes, e \in EntropyRegimes},
     channel : {Channel(9500, 10500, 10000)}, pain : {10000},
     walls : {Walls(10500, 9500)},
     tech : {Tech(0, "IN_LINE", b, 200, 100) : b \in Betas}]

CallDealerMap ==
    /\ pc = "dealer_map"
    /\ ret' = dealer_map(args)
    /\ pc' = "dealer_map.return"
    /\ UNCHANGED args

InitDealerMap == pc = "dealer_map" /\ args \in DealerMapRequests /\ ret = NoResult

NextDealerMap == CallDealerMap

SpecDealerMap == InitDealerMap /\ [][NextDealerMap]_vars

\* The effective ratio of a request exceeds 1.
C12_RGt1(req) ==
    \/ req.gex.entropy = "CRITICAL" /\ req.reynolds.regime = "TRANSITIONAL"
    \/ req.reynolds.reynolds_number > 100 * Max(req.tech.beta, 30)

\* C12: when the autocorrelation scan has no usable data (status other than
\* OK) the pipeline does not abort: it continues with the neutral ACF values,
\* the phase reading is UNKNOWN, and a thesis is still produced, decided by
\* flow alone: MOMENTUM_EARLY if the effective ratio exceeds 1, else NEUTRAL.
C12_DegradesToFlowAlone ==
    (pc = "dealer_map.return" /\ args.scan.status # "OK") =>
        /\ ret # AnalysisFailed
        /\ ret.acf.regime = "NEUTRAL" /\ ret.acf.mean_acf1 = 0
        /\ ret.acf.pct_amplified = 0 /\ ret.acf.pct_dampened = 0
        /\ ret.acf.daily_results = << >>
        /\ ret.acf.self_excitation = EmptySei
        /\ ret.phase.regime = "UNKNOWN"
        /\ ret.directional.thesis
               = IF C12_RGt1(args) THEN "MOMENTUM_EARLY" ELSE "NEUTRAL"

\* classify_thesis itself, called with the neutral ACF values, decides by
\* flow alone.
C12_ThesisOnFallback ==
    (pc = "classify_thesis.return" /\ args.acf.status = "FALLBACK") =>
        /\ args.phase.regime = "UNKNOWN"
        /\ ret.thesis = IF C1_RGt1(args) THEN "MOMENTUM_EARLY" ELSE "NEUTRAL"

\* A request without usable ACF data has been answered.
C12_Answered == pc = "dealer_map.return" /\ args.scan.status # "OK"

----------------------------------------------------------------------------
(* gamma_channel.extract_channel on bounded profiles                       *)

\* Most rows in a profile.
MaxRows == 4

\* Strikes within 0.5% of spot 100.00 on both sides (a pin zone), spot
\* itself, and strikes 2% away.
ChannelStrikes == {9800, 9970, 9990, 10000, 10020, 10040, 10200}

\* net_gex in cents: dominant of either sign, between the 10% and 15%
\* thresholds, between 5% and 10%, and zero.
ChannelGex == {-100, -12, 0, 8, 100}

\* A profile as calculate_gex_profile lists it: ascending distinct strikes.
ProfileOn(K, g) ==
    LET strikes == Sorted(K)
    IN  [i \in 1..Len(strikes) |-> [strike |-> strikes[i], net_gex |-> g[strikes[i]]]]

CallExtractChannel ==
    /\ pc = "extract_channel"
    /\ ret' = extract_channel(args.gex_by_strike, args.spot)
    /\ pc' = "extract_channel.return"
    /\ UNCHANGED args

\* Every profile of at most MaxRows rows at spot 100.00, and the profiles of
\* at most one row at spot 0.
InitChannel ==
    /\ pc = "extract_channel"
    /\ \E K \in SUBSET ChannelStrikes :
           /\ Cardinality(K) <= MaxRows
           /\ \E g \in [K -> ChannelGex] :
                  \E spot \in IF Cardinality(K) <= 1 THEN {0, 10000} ELSE {10000} :
                      args = [gex_by_strike |-> ProfileOn(K, g), spot |-> spot]
    /\ ret = NoResult

NextChannel == CallExtractChannel

SpecChannel == InitChannel /\ [][NextChannel]_vars

\* C13: whenever extract_channel returns both a floor and a ceiling then
\* floor < spot < ceiling and channel_position is in [0, 1], also after
\* degenerate widening; with no rows, spot <= 0 or all-zero net GEX both
\* bounds are None and degenerate is false.
C13_ChannelInvariant ==
    pc = "extract_channel.return" =>
        /\ (ret.floor # None /\ ret.ceiling # None) =>
               /\ ret.floor < args.spot /\ args.spot < ret.ceiling
               /\ ret.channel_position \in 0..1000
        /\ (\/ args.gex_by_strike = << >>
            \/ args.spot <= 0
            \/ \A i \in 1..Len(args.gex_by_strike) : args.gex_by_strike[i].net_gex = 0) =>
               ret.floor = None /\ ret.ceiling = None /\ ret.degenerate = FALSE

\* A pin zone narrower than 1% that was widened on both sides.
C13_Witness ==
    /\ pc = "extract_channel.return"
    /\ ret.degenerate
    /\ ret.floor = 9800 /\ ret.ceiling = 10200
    /\ ret.channel_position = 500

\* An all-zero profile at a positive spot.
C13_WitnessAllZero ==
    /\ pc = "extract_channel.return"
    /\ args.spot > 0 /\ Len(args.gex_by_strike) = 2
    /\ \A i \in 1..2 : args.gex_by_strike[i].net_gex = 0
    /\ ret = EmptyChannel

\* The strikes of the rows of args on one side of spot (side 1 above, -1
\* below) that satisfy P, and the largest |net_gex| of the profile.
C14_Side(side, P(_)) ==
    {args.gex_by_strike[i].strike : i \in
        {j \in 1..Len(args.gex_by_strike) :
            /\ side * (args.gex_by_strike[j].strike - args.spot) > 0
            /\ P(args.gex_by_strike[j].net_gex)}}

C14_Max ==
    CHOOSE m \in {Abs(args.gex_by_strike[i].net_gex) : i \in 1..Len(args.gex_by_strike)} :
        \A i \in 1..Len(args.gex_by_strike) : Abs(args.gex_by_strike[i].net_gex) <= m

\* The strikes on a side with the largest (pick 1) or smallest (pick -1)
\* |net_gex| among those above the 10% fallback threshold.
C14_Fallback(side, pick) ==
    LET any == C14_Side(side, LAMBDA g : 100 * Abs(g) > 10 * C14_Max)
        key == [k \in any |-> pick * Abs(NetGexAt(args.gex_by_strike, k))]
    IN  {k \in any : \A l \in any : key[l] <= key[k]}

\* The bound on a side by the stated rule: the strike nearest to spot with
\* net_gex above 15% of the maximum, else a fallback pick, else None.
C14_Bound(side, pick) ==
    LET positive == C14_Side(side, LAMBDA g : 100 * g > 15 * C14_Max)
    IN  IF positive # {}
        THEN {CHOOSE k \in positive : \A l \in positive : side * (l - k) >= 0}
        ELSE IF C14_Fallback(side, pick) # {} THEN C14_Fallback(side, pick)
        ELSE {None}

\* A call on a profile with a non-zero row that was not widened.
C14_Plain ==
    /\ pc = "extract_channel.return"
    /\ args.spot > 0 /\ args.gex_by_strike # << >> /\ C14_Max > 0
    /\ ~ret.degenerate

\* C14: the ceiling is determined symmetrically to the floor: nearest strike
\* to spot with net_gex > 15% of max |net_gex| on each side, and on a side
\* without one the fallback picks, among strikes with |net_gex| > 10%, the
\* strike with the largest |net_gex| on both sides.
C14_SymmetricFallback ==
    C14_Plain => ret.floor \in C14_Bound(-1, 1) /\ ret.ceiling \in C14_Bound(1, 1)

\* What the ceiling fallback does: it picks the smallest |net_gex|.
C14_CeilingFallbackSmallest ==
    C14_Plain => ret.floor \in C14_Bound(-1, 1) /\ ret.ceiling \in C14_Bound(1, -1)

\* A ceiling chosen by the fallback among two candidates of different size.
C14_FallbackCeiling ==
    /\ C14_Plain
    /\ C14_Side(1, LAMBDA g : 100 * g > 15 * C14_Max) = {}
    /\ Cardinality(C14_Fallback(1, 1) \cup C14_Fallback(1, -1)) = 2
    /\ ret.ceiling \in C14_Fallback(1, -1)

----------------------------------------------------------------------------
(* gamma_channel.channel_strategy                                          *)

\* Channels without a bound, and with spot in the lower quartile, on the
\* quartile boundary, in the middle and in the upper quartile.
StrategyChannels ==
    {Channel(None, None, 10000), Channel(None, 10500, 10000), Channel(9500, None, 10000),
     Channel(9900, 10500, 10000), Channel(9900, 10300, 10000), Channel(9500, 10500, 10000),
     Channel(9500, 10100, 10000)}

\* Flow readings as compute_gamma_reynolds reports them, with ratios on
\* either side of 0.7.
StrategyReynolds ==
    ReynoldsReadings
    \cup {[reynolds_number |-> ReportedReynolds(r), regime |-> ReynoldsRegimeOf(r)] :
             r \in {Rat(7, 10), Rat(70004, 100000), Rat(69996, 100000), Rat(5, 10)}}

StrategyInputs ==
    {[channel |-> ch, regime |-> g, reynolds_regime |-> re.regime,
      re_gamma |-> re.reynolds_number] :
        ch \in StrategyChannels, g \in GexRegimes \cup {"LONG_GAMMA"}, re \in StrategyReynolds}

CallChannelStrategy ==
    /\ pc = "channel_strategy"
    /\ ret' = channel_strategy(args.channel, args.regime, args.reynolds_regime, args.re_gamma)
    /\ pc' = "channel_strategy.return"
    /\ UNCHANGED args

InitStrategy == pc = "channel_strategy" /\ args \in StrategyInputs /\ ret = NoResult

NextStrategy == CallChannelStrategy

SpecStrategy == InitStrategy /\ [][NextStrategy]_vars

\* The readings of a channel_strategy call.
C15_Missing ==
    args.channel.floor = None \/ args.channel.ceiling = None \/ args.channel.width_pct = None

C15_LongLaminar ==
    /\ args.regime \in {"POSITIVE_GAMMA", "LONG_GAMMA"}
    /\ args.reynolds_regime \in {"LAMINAR", "UNKNOWN"}

C15_Turbulent == args.reynolds_regime = "TURBULENT" \/ args.re_gamma > 10000

C15_Outer ==
    IF args.channel.channel_position < 250 THEN "GEX_FLOOR_BOUNCE"
    ELSE IF args.channel.channel_position > 750 THEN "GEX_CEILING_FADE"
    ELSE "NONE"

\* The strategy of the stated rules, with mid standing for the strategy of a
\* long-gamma laminar reading with spot outside the outer quartiles.
C15_Stated(mid) ==
    IF C15_Missing THEN "NO_CHANNEL"
    ELSE IF C15_LongLaminar /\ C15_Outer # "NONE" THEN C15_Outer
    ELSE IF C15_LongLaminar THEN mid
    ELSE IF C15_Turbulent THEN "BREAKOUT_CHANNEL"
    ELSE IF args.reynolds_regime = "TRANSITIONAL" THEN "TRANSITION_WATCH"
    ELSE "WAIT"

C15_EdgeOf(strategy) ==
    CASE strategy \in {"GEX_FLOOR_BOUNCE", "GEX_CEILING_FADE", "CHANNEL_RANGE"} -> "WITH_DEALER"
      [] strategy = "BREAKOUT_CHANNEL" -> "AGAINST_DEALER"
      [] strategy = "TRANSITION_WATCH" -> "TRANSITIONAL"
      [] OTHER -> "NEUTRAL"

\* C15: channel_strategy returns NO_CHANNEL when floor, ceiling or width is
\* missing; otherwise a WITH_DEALER floor bounce or ceiling fade exactly when
\* the gamma regime is long and flow is laminar with the position in an outer
\* quartile; an AGAINST_DEALER breakout when flow is turbulent or the ratio
\* is > 1; TRANSITION_WATCH when the ratio is in (0.7, 1]; and WAIT in every
\* remaining case.
C15_WaitInEveryRemainingCase ==
    pc = "channel_strategy.return" => ret.strategy = C15_Stated("WAIT")

\* C15 as the code has it: a long-gamma laminar reading with spot between the
\* quartiles gives the WITH_DEALER strategy CHANNEL_RANGE, and WAIT is left
\* for short gamma without turbulent or transitional flow.
C15_ChannelRangeInMidChannel ==
    pc = "channel_strategy.return" =>
        /\ ret.strategy = C15_Stated("CHANNEL_RANGE")
        /\ ret.edge_type = C15_EdgeOf(ret.strategy)
        /\ ret.strategy = "WAIT" =>
               /\ args.regime = "NEGATIVE_GAMMA"
               /\ args.reynolds_regime \in {"LAMINAR", "UNKNOWN"}

\* Long gamma, laminar flow, spot exactly on the lower quartile boundary.
C15_Witness ==
    /\ pc = "channel_strategy.return"
    /\ C15_LongLaminar
    /\ args.channel.channel_position = 250
    /\ ret.strategy = "CHANNEL_RANGE"

C15_WitnessWait == pc = "channel_strategy.return" /\ ret.strategy = "WAIT"

----------------------------------------------------------------------------
(* straddle_analyzer.analyze_straddles: score and verdict                  *)
(* Option prices in cents, breakeven and ATR in 1e-2 %, IV and realized    *)
(* vol in 1e-2, IV/RV ratio in 1e-2, mean_acf1 in 1e-4, pct_amplified and  *)
(* distance_to_transition in 1e-1, sei in 1e-3, width_pct in 1e-2 %.       *)

\* Twice the mid price: (bid + ask) / 2 when both are quoted, else lastPrice.
TwiceMidPrice(option) ==
    IF option.bid > 0 /\ option.ask > 0 THEN option.bid + option.ask
    ELSE 2 * option.lastPrice

\* The first option closest to the target strike; options is not empty.
find_nearest_option(options, target_strike) ==
    FirstMinBy(options, LAMBDA o : Abs(o.strike - target_strike))

empty_straddle(spot) == [strike |-> 100 * RoundHalfEven(spot, 100), required_move_pct |-> 0]

build_straddle(calls, puts, spot) ==
    IF calls = << >> \/ puts = << >> THEN empty_straddle(spot)
    ELSE LET atm_call == find_nearest_option(calls, spot)
             atm_put == find_nearest_option(puts, spot)
             total == TwiceMidPrice(atm_call) + TwiceMidPrice(atm_put)
         IN  IF total <= 0 THEN empty_straddle(spot)
             ELSE [strike |-> atm_call.strike,
                   required_move_pct |-> RoundHalfEven(5000 * total, spot)]

\* rv is the annualised realized vol of the price history, 0 without one.
compute_iv_vs_rv(atm_iv, rv) ==
    LET iv == IF atm_iv <= 0 THEN 30 ELSE atm_iv
    IN  [iv_rv_ratio |-> IF rv > 1 THEN RoundHalfEven(100 * iv, rv) ELSE 100]

Clamp25(score) == Max(0, Min(25, score))

score_regime(re_gamma, re_regime, acf1, pct_amp, gex_regime) ==
    Clamp25((IF re_regime = "TURBULENT" THEN 12 ELSE IF re_regime = "TRANSITIONAL" THEN 6 ELSE 0)
            + (IF acf1 > 1000 THEN 8 ELSE IF acf1 > 500 THEN 5 ELSE IF acf1 > 0 THEN 2
               ELSE IF acf1 < -1000 THEN -3 ELSE 0)
            + (IF pct_amp > 150 THEN 5 ELSE IF pct_amp > 100 THEN 3 ELSE 0))

score_iv(iv_rv_ratio, atm_iv) ==
    Clamp25((IF iv_rv_ratio < 75 THEN 20 ELSE IF iv_rv_ratio < 85 THEN 15
             ELSE IF iv_rv_ratio < 100 THEN 10 ELSE IF iv_rv_ratio < 115 THEN 5
             ELSE IF iv_rv_ratio < 130 THEN 2 ELSE 0)
            + (IF atm_iv < 20 THEN 5 ELSE IF atm_iv < 30 THEN 3 ELSE 0))

\* phase.get("distance_to_transition", 0): the UNKNOWN phase has no distance.
PhaseDistance(phase) ==
    IF "distance_to_transition" \in DOMAIN phase THEN phase.distance_to_transition ELSE 0

score_catalyst(phase, acf, ch_width) ==
    Clamp25((IF phase.regime = "TURBULENT" THEN 10
             ELSE IF phase.regime = "APPROACHING" THEN 6 ELSE 0)
            + (IF 0 < PhaseDistance(phase) /\ PhaseDistance(phase) < 50 THEN 5 ELSE 0)
            + (IF acf.at_squeeze_ceiling THEN 5 ELSE 0)
            + (IF acf.stability = "UNSTABLE" THEN 5
               ELSE IF acf.stability = "SHIFTING" THEN 3 ELSE 0)
            + (IF ch_width > 0 /\ ch_width < 200 THEN 5
               ELSE IF ch_width > 0 /\ ch_width < 400 THEN 2 ELSE 0)
            + (IF acf.self_excitation.sei > 150000 THEN 6
               ELSE IF acf.self_excitation.sei > 80000 THEN 3 ELSE 0))

score_structural(gex_regime, channel, re_gamma, straddle, atr_pct, entropy_regime) ==
    LET ch_width == IF Truthy(channel.width_pct) THEN channel.width_pct ELSE 0
        be_pct == straddle.required_move_pct
    IN  Clamp25((IF gex_regime = "NEGATIVE_GAMMA" THEN 8 ELSE 2)
                + (IF ch_width > 0 /\ ch_width < 300 THEN 5
                   ELSE IF ch_width > 0 /\ ch_width < 500 THEN 3 ELSE 0)
                + (IF re_gamma > 15000 THEN 4 ELSE IF re_gamma > 10000 THEN 2 ELSE 0)
                + (IF atr_pct > 0 /\ be_pct > 0
                   THEN (IF 10 * atr_pct > 15 * be_pct THEN 8
                         ELSE IF atr_pct > be_pct THEN 5
                         ELSE IF 10 * atr_pct > 7 * be_pct THEN 2 ELSE 0)
                   ELSE IF be_pct < 150 THEN 3
                   ELSE IF be_pct < 250 THEN 1 ELSE 0)
                + (IF entropy_regime = "CRITICAL" THEN 8
                   ELSE IF entropy_regime = "APPROACHING" THEN 4 ELSE 0))

\* A drag with penalties twice as large.
VrpDragDoublePenalty(vrp_ctx) ==
    IF vrp_ctx = "HIGH_PREMIUM" THEN -12
    ELSE IF vrp_ctx = "MODERATE_PREMIUM" THEN -6
    ELSE IF vrp_ctx = "SMALL_PREMIUM" THEN -2
    ELSE IF vrp_ctx = "DISCOUNT" THEN 10
    ELSE 0

vrp_drag(vrp_ctx) ==
    IF vrp_ctx = "HIGH_PREMIUM" THEN -6
    ELSE IF vrp_ctx = "MODERATE_PREMIUM" THEN -3
    ELSE IF vrp_ctx = "SMALL_PREMIUM" THEN -1
    ELSE IF vrp_ctx = "DISCOUNT" THEN 10
    ELSE 0

\* A verdict that buys from 60 points whatever the IV/RV ratio.
DetermineVerdictAnyRatio(total, iv_rv_ratio, re_regime, straddle) ==
    IF total >= 70 /\ iv_rv_ratio < 120 THEN "BUY_STRADDLE"
    ELSE IF total >= 60
         THEN (IF straddle.required_move_pct > 350 THEN "BUY_STRANGLE" ELSE "BUY_STRADDLE")
    ELSE IF total >= 45 THEN "CONSIDER"
    ELSE "AVOID"

determine_verdict(total, iv_rv_ratio, re_regime, straddle) ==
    IF total >= 70 /\ iv_rv_ratio < 120 THEN "BUY_STRADDLE"
    ELSE IF total >= 60 /\ iv_rv_ratio < 130
         THEN (IF straddle.required_move_pct > 350 THEN "BUY_STRANGLE" ELSE "BUY_STRADDLE")
    ELSE IF total >= 45 THEN "CONSIDER"
    ELSE "AVOID"

\* The straddle, the IV/RV ratio, the score and the verdict of the result;
\* technicals and vrp_data are << >> (None, or a dict without the keys read
\* here) or the readings the scores look at.
analyze_straddles(a) ==
    LET re_gamma == a.reynolds.reynolds_number
        re_regime == a.reynolds.regime
        atm_iv == a.reynolds.atm_iv
        acf1 == a.acf.mean_acf1
        pct_amp == a.acf.pct_amplified
        ch_width == IF Truthy(a.channel.width_pct) THEN a.channel.width_pct ELSE 0
        atr_pct == IF "atr" \in DOMAIN a.technicals THEN a.technicals.atr.atr_pct ELSE 0
        straddle == build_straddle(a.calls, a.puts, a.spot)
        iv_rv == compute_iv_vs_rv(atm_iv, a.rv)
        entropy_regime == IF "_gex_entropy" \in DOMAIN a.technicals
                          THEN a.technicals._gex_entropy.regime ELSE "DISPERSED"
        regime_score == score_regime(re_gamma, re_regime, acf1, pct_amp, a.gex_regime)
        iv_score == score_iv(iv_rv.iv_rv_ratio, atm_iv)
        catalyst_score == score_catalyst(a.phase, a.acf, ch_width)
        structural_score == score_structural(a.gex_regime, a.channel, re_gamma, straddle,
                                             atr_pct, entropy_regime)
        vrp_ctx == IF "context" \in DOMAIN a.vrp_data THEN a.vrp_data.context ELSE "N/A"
        drag == vrp_drag(vrp_ctx)
        total == regime_score + iv_score + catalyst_score + structural_score + drag
    IN  [straddle |-> straddle,
         iv_vs_rv |-> iv_rv,
         score |-> [total |-> total, regime |-> regime_score, iv |-> iv_score,
                    catalyst |-> catalyst_score, structural |-> structural_score,
                    vrp_drag |-> drag],
         verdict |-> determine_verdict(total, iv_rv.iv_rv_ratio, re_regime, straddle)]

\* Bounded inputs of one analyze_straddles call, at spot 100.00.
Quote(strike, bid, ask, lastPrice) ==
    [strike |-> strike, bid |-> bid, ask |-> ask, lastPrice |-> lastPrice]

\* Chains whose ATM straddle costs 4.00, 3.50, 2.00 and 0.98, and one without
\* calls.
StraddleChains ==
    {[calls |-> <<Quote(9500, 600, 620, 610), Quote(10000, 190, 210, 150)>>,
      puts |-> <<Quote(10000, 195, 205, 0)>>],
     [calls |-> <<Quote(10000, 170, 180, 0)>>, puts |-> <<Quote(10000, 0, 0, 175)>>],
     [calls |-> <<Quote(10000, 0, 0, 100)>>,
      puts |-> <<Quote(10000, 95, 105, 0), Quote(10500, 500, 520, 0)>>],
     [calls |-> <<Quote(10000, 0, 50, 50)>>, puts |-> <<Quote(10100, 45, 51, 0)>>],
     [calls |-> << >>, puts |-> <<Quote(10000, 95, 105, 0)>>]}

\* Flow readings with the ATM IV and the realized vol: IV/RV ratios 0.70
\* (at three IV levels), 0.80, 1.10, 1.19, 1.20, 1.25, 1.30, and no IV or
\* no price history.
StraddleFlows ==
    {[reynolds_number |-> ReportedReynolds(r), regime |-> ReynoldsRegimeOf(r)] :
        r \in {Rat(3, 10), Rat(8, 10), Rat(100004, 100000), Rat(5, 2)}}

StraddleVols ==
    {<<21, 30>>, <<14, 20>>, <<35, 50>>, <<24, 30>>, <<33, 30>>, <<25, 21>>, <<30, 25>>,
     <<30, 24>>, <<26, 20>>, <<0, 30>>, <<21, 0>>}

AcfReading(mean_acf1, pct_amplified, at_squeeze_ceiling, stability, sei) ==
    [mean_acf1 |-> mean_acf1, pct_amplified |-> pct_amplified,
     at_squeeze_ceiling |-> at_squeeze_ceiling, stability |-> stability,
     self_excitation |-> [sei |-> sei]]

StraddleAcfs ==
    {AcfReading(-1500, 0, FALSE, "STABLE", 0), AcfReading(300, 50, FALSE, "SHIFTING", 100000),
     AcfReading(700, 80, FALSE, "STABLE", 0), AcfReading(700, 120, TRUE, "STABLE", 0),
     AcfReading(1200, 200, FALSE, "STABLE", 0),
     AcfReading(1200, 600, TRUE, "UNSTABLE", 200000)}

StraddlePhases ==
    {[regime |-> "UNKNOWN", pct_amplified |-> 0],
     [regime |-> "LAMINAR", pct_amplified |-> 40, distance_to_transition |-> 89],
     [regime |-> "APPROACHING", pct_amplified |-> 100, distance_to_transition |-> 29],
     [regime |-> "TURBULENT", pct_amplified |-> 600, distance_to_transition |-> -471]}

StraddleWidths == {None, 150, 250, 450, 600}

StraddleTechnicals ==
    {<< >>}
    \cup {[atr |-> [atr_pct |-> atr], _gex_entropy |-> [regime |-> e]] :
             atr \in {100, 450}, e \in {"CRITICAL", "DISPERSED"}}
    \cup {[atr |-> [atr_pct |-> 300], _gex_entropy |-> [regime |-> "APPROACHING"]],
          [atr |-> [atr_pct |-> 0], _gex_entropy |-> [regime |-> "DISPERSED"]]}

StraddleVrp ==
    {<< >>} \cup {[context |-> c] :
                     c \in {"HIGH_PREMIUM", "MODERATE_PREMIUM", "SMALL_PREMIUM", "DISCOUNT"}}

CallAnalyzeStraddles ==
    /\ pc = "analyze_straddles"
    /\ ret' = analyze_straddles(args)
    /\ pc' = "analyze_straddles.return"
    /\ UNCHANGED args

InitStraddle ==
    /\ pc = "analyze_straddles"
    /\ ret = NoResult
    /\ \E chain \in StraddleChains, flow \in StraddleFlows, vol \in StraddleVols,
          acf \in StraddleAcfs, phase \in StraddlePhases, gex_regime \in GexRegimes,
          width \in StraddleWidths, technicals \in StraddleTechnicals,
          vrp_data \in StraddleVrp :
           args = [calls |-> chain.calls, puts |-> chain.puts, spot |-> 10000, dte |-> 7,
                   acf |-> acf,
                   reynolds |-> [atm_iv |-> vol[1]] @@ flow,
                   phase |-> phase, gex_regime |-> gex_regime,
                   channel |-> [width_pct |-> width],
                   rv |-> vol[2], technicals |-> technicals, vrp_data |-> vrp_data]

NextStraddle == CallAnalyzeStraddles

SpecStraddle == InitStraddle /\ [][NextStraddle]_vars

\* The verdict rule as stated, on a total, an IV/RV ratio and a breakeven.
C16_StatedVerdict(total, ratio, be_pct) ==
    IF total >= 70 /\ ratio < 120 THEN "BUY_STRADDLE"
    ELSE IF total >= 60 /\ ratio < 130
         THEN (IF be_pct > 350 THEN "BUY_STRANGLE" ELSE "BUY_STRADDLE")
    ELSE IF total >= 45 THEN "CONSIDER"
    ELSE "AVOID"

\* C16: the straddle verdict is a function of the total score, the IV/RV
\* ratio and the breakeven percentage alone: BUY_STRADDLE from 70 points with
\* a ratio under 1.2; otherwise from 60 points with a ratio under 1.3
\* BUY_STRANGLE when the breakeven exceeds 3.5 % and BUY_STRADDLE when not;
\* otherwise CONSIDER from 45 points, else AVOID.  No BUY verdict comes with
\* fewer than 60 points or a ratio of 1.3 or more, and the total is the sum
\* of four sub-scores, each within [0, 25], plus the VRP drag.
C16_VerdictFromScore ==
    pc = "analyze_straddles.return" =>
        LET score == ret.score
        IN  /\ ret.verdict = C16_StatedVerdict(score.total, ret.iv_vs_rv.iv_rv_ratio,
                                               ret.straddle.required_move_pct)
            /\ ret.verdict \in {"BUY_STRADDLE", "BUY_STRANGLE"} =>
                   score.total >= 60 /\ ret.iv_vs_rv.iv_rv_ratio < 130
            /\ \A part \in {score.regime, score.iv, score.catalyst, score.structural} :
                   part \in 0..25
            /\ score.vrp_drag \in {-6, -3, -1, 0, 10}
            /\ score.total = score.regime + score.iv + score.catalyst + score.structural
                             + score.vrp_drag

\* A strangle on seventy points and more: the ratio is 1.2 and the breakeven
\* exceeds 3.5 %.
C16_Witness ==
    /\ pc = "analyze_straddles.return"
    /\ ret.verdict = "BUY_STRANGLE"
    /\ ret.score.total >= 70
    /\ ret.iv_vs_rv.iv_rv_ratio = 120

\* Seventy points and more are not bought at a ratio of 1.3.
C16_WitnessExpensive ==
    /\ pc = "analyze_straddles.return"
    /\ ret.verdict = "CONSIDER"
    /\ ret.score.total >= 70
    /\ ret.iv_vs_rv.iv_rv_ratio = 130

\* The scenario: turbulent flow, amplified ACF (mean lag-1 ACF above 0.05),
\* an IV/RV ratio of 0.7 and a channel under 2 % wide.
C17_Scenario ==
    /\ pc = "analyze_straddles.return"
    /\ args.reynolds.regime = "TURBULENT"
    /\ args.acf.mean_acf1 > 500
    /\ ret.iv_vs_rv.iv_rv_ratio = 70
    /\ args.channel.width_pct > 0 /\ args.channel.width_pct < 200

\* The inputs the scenario leaves open, at their supportive readings.
C17_Support ==
    /\ args.gex_regime = "NEGATIVE_GAMMA"
    /\ args.phase.regime = "TURBULENT"
    /\ "_gex_entropy" \in DOMAIN args.technicals
    /\ args.technicals._gex_entropy.regime = "CRITICAL"
    /\ ~("context" \in DOMAIN args.vrp_data /\ args.vrp_data.context = "HIGH_PREMIUM")

\* C17 as stated: in the scenario the total is at least 70 and the verdict a
\* BUY, whatever the gamma regime, phase reading, ATR coverage, entropy
\* regime, ATM IV level and VRP context.
C17_ScenarioAlwaysBuys ==
    C17_Scenario =>
        /\ ret.score.total >= 70
        /\ ret.verdict \in {"BUY_STRADDLE", "BUY_STRANGLE"}

\* C17 as the code has it: the scenario alone guarantees 17 regime points,
\* 20 IV points, 5 catalyst points and 7 structural points, a total of 43 at
\* least; 70 points and BUY_STRADDLE follow when the gamma regime is
\* negative, the phase TURBULENT, the entropy CRITICAL and the VRP context
\* not HIGH_PREMIUM.
C17_BuyNeedsSupport ==
    C17_Scenario =>
        /\ ret.score.regime >= 17
        /\ ret.score.iv >= 20
        /\ ret.score.catalyst >= 5
        /\ ret.score.structural >= 7
        /\ ret.score.total >= 43
        /\ C17_Support => ret.score.total >= 70 /\ ret.verdict = "BUY_STRADDLE"

\* The scenario with supportive open inputs, bought on exactly 70 points.
C17_Witness ==
    /\ C17_Scenario
    /\ C17_Support
    /\ ret.score.total = 70
    /\ ret.verdict = "BUY_STRADDLE"

\* The scenario with unsupportive open inputs: 43 points and AVOID.
C17_WitnessAvoid ==
    /\ C17_Scenario
    /\ ret.score.total = 43
    /\ ret.verdict = "AVOID"

----------------------------------------------------------------------------
(* Claims about the effective ratio, the bias strength and the wall-break  *)
(* confidence                                                              *)

\* reynolds_number x 1/max(beta_60d, 0.3) of a request, as a rational.
C18_BetaAdjusted(a) ==
    Rat(a.reynolds.reynolds_number, 100 * Max(a.technicals.relative_strength.beta_60d, 30))

C18_Forced(a) ==
    a.technicals.gex_entropy.regime = "CRITICAL" /\ a.reynolds.regime = "TRANSITIONAL"

\* C18: the thesis tree works on reynolds_number x 1/max(beta_60d, 0.3),
\* raised to at least 1.05 when the entropy regime is CRITICAL and the flow
\* regime TRANSITIONAL: such a request is MOMENTUM_BREAKOUT or MOMENTUM_EARLY
\* for every beta and ACF reading; any other request is one of the two
\* exactly when the beta-adjusted ratio exceeds 1, and can be CONFLICTED_PIN
\* only when that ratio is below 0.7.
C18_EffectiveRatio ==
    pc = "classify_thesis.return" =>
        LET flow_thesis == ret.thesis \in {"MOMENTUM_BREAKOUT", "MOMENTUM_EARLY"}
            r == C18_BetaAdjusted(args)
        IN  /\ effective_re(args.reynolds.reynolds_number, args.reynolds.regime,
                            args.technicals.relative_strength.beta_60d,
                            args.technicals.gex_entropy.regime)
                 = (IF C18_Forced(args) /\ RatLt(r, Rat(105, 100)) THEN Rat(105, 100) ELSE r)
            /\ C18_Forced(args) => flow_thesis
            /\ ~C18_Forced(args) => (flow_thesis <=> RatGt(r, Rat(1, 1)))
            /\ ret.thesis = "CONFLICTED_PIN" => ~C18_Forced(args) /\ RatLt(r, Rat(7, 10))

\* CRITICAL entropy and TRANSITIONAL flow with a beta-adjusted ratio under
\* 0.7 and amplified days in the majority: a pin without the forcing.
C18_Witness ==
    /\ pc = "classify_thesis.return"
    /\ C18_Forced(args)
    /\ RatLt(C18_BetaAdjusted(args), Rat(7, 10))
    /\ args.acf.pct_amplified > args.acf.pct_dampened
    /\ args.acf.pct_amplified > 130
    /\ ret.thesis = "MOMENTUM_BREAKOUT"

\* The forced ratio under a dampened ACF reading.
C18_WitnessEarly ==
    /\ pc = "classify_thesis.return"
    /\ C18_Forced(args)
    /\ args.acf.regime = "LONG_GAMMA"
    /\ ret.thesis = "MOMENTUM_EARLY"

\* Five days with mean lag-1 ACF 0.12, three of them amplified.
ScenarioScan == ScanTickerAcf(<<3000, 2000, 1800, -600, -200>>, EmptySei)

\* The bias requests, the breakout scenario under every gamma regime,
\* entropy regime, max pain, beta and bullish technical reading, and
\* requests without a thesis edge whose bias comes from the channel position.
OverlayInputs ==
    BiasInputs
    \cup {DealerMapArgs(10000, 10, ScenarioScan,
                        [reynolds_number |-> 15000, regime |-> "TURBULENT"],
                        Gex(g, 9800, 0, e), Channel(9500, 10500, 10000), pain,
                        Walls(10500, 9500), Tech(al, rs, b, 200, 100)) :
             g \in GexRegimes, e \in EntropyRegimes, pain \in {9500, 10500},
             al \in {2, 3}, rs \in RsLabels, b \in Betas}
    \cup {DealerMapArgs(10000, 10, ScanTickerAcf(<<0>>, EmptySei),
                        [reynolds_number |-> 3000, regime |-> "LAMINAR"],
                        Gex("POSITIVE_GAMMA", 9800, 0, "DISPERSED"), ch, 10000,
                        Walls(10500, 9500), Tech(al, rs, 100, 200, 100)) :
             ch \in {Channel(9900, 10500, 10000), Channel(9500, 10100, 10000)},
             al \in -3..3, rs \in RsLabels}

InitOverlay == pc = "classify_thesis" /\ args \in OverlayInputs /\ ret = NoResult

SpecOverlay == InitOverlay /\ [][NextThesis]_vars

\* The stated base strength of a momentum or fade thesis.
C19_Base(thesis) == IF thesis \in {"MOMENTUM_BREAKOUT", "FADE_MOVES"} THEN "STRONG" ELSE "MODERATE"

C19_Agree(direction, tech) ==
    \/ direction = "BULLISH" /\ tech \in {"BULLISH", "LEAN_BULLISH"}
    \/ direction = "BEARISH" /\ tech \in {"BEARISH", "LEAN_BEARISH"}

C19_Oppose(direction, tech) ==
    \/ direction = "BULLISH" /\ tech \in {"BEARISH", "LEAN_BEARISH"}
    \/ direction = "BEARISH" /\ tech \in {"BULLISH", "LEAN_BULLISH"}

\* The stated one-notch rule.
C19_Notch(strength, direction, tech) ==
    IF C19_Agree(direction, tech) /\ strength = "MODERATE" THEN "STRONG"
    ELSE IF C19_Oppose(direction, tech) /\ strength = "STRONG" THEN "MODERATE"
    ELSE IF C19_Oppose(direction, tech) /\ strength = "MODERATE" THEN "WEAK"
    ELSE strength

\* The bias before the overlay.
C19_BiasBefore ==
    ComputeBias(ret.thesis, args.spot, args.flip_point, args.max_pain,
                args.channel.channel_position, args.total_charm, args.dte,
                args.technicals.moving_averages.alignment,
                args.technicals.trend.trend_score)

\* Turbulent flow with an effective ratio of 1.5, mean ACF 0.12 with 60 % of
\* the days amplified, spot above the flip point, bullish technicals.
C19_Scenario ==
    /\ pc = "classify_thesis.return"
    /\ args.reynolds.regime = "TURBULENT"
    /\ 2 * C18_BetaAdjusted(args).n = 3 * C18_BetaAdjusted(args).d
    /\ args.acf.mean_acf1 = 1200
    /\ args.acf.pct_amplified = 600
    /\ args.spot > args.flip_point
    /\ args.technicals.trend.tech_bias \in {"BULLISH", "LEAN_BULLISH"}

C19_WitnessLowered ==
    /\ pc = "classify_thesis.return"
    /\ ret.thesis = "MOMENTUM_BREAKOUT"
    /\ C19_Oppose(ret.bias.direction, args.technicals.trend.tech_bias)
    /\ ret.bias.strength = "MODERATE"

\* A MODERATE base lowered to WEAK, and one raised to STRONG.
C19_WitnessWeak ==
    /\ pc = "classify_thesis.return"
    /\ ret.thesis \in {"MOMENTUM_TREND", "MOMENTUM_EARLY"}
    /\ ret.bias.strength = "WEAK"

C19_WitnessRaised ==
    /\ pc = "classify_thesis.return"
    /\ ret.thesis = "FADE_MILD"
    /\ ret.bias.strength = "STRONG"

\* A WEAK channel bias that agreeing technicals leave as it is.
C19_WitnessUnchanged ==
    /\ pc = "classify_thesis.return"
    /\ ret.bias.strength = "WEAK"
    /\ C19_BiasBefore.strength = "WEAK"
    /\ C19_Agree(ret.bias.direction, args.technicals.trend.tech_bias)

\* The three votes of a wall-break request, as stated.
C20_Vote(break) == IF break THEN "BREAK" ELSE "HOLD"

C20_Flow == C20_Vote(args.re_gamma > 100 * Max(args.beta, 30))

C20_Price ==
    C20_Vote((args.pct_amp > args.pct_damp /\ args.acf1 > 0) \/ args.acf1 > 1000)

C20_SelfExcitation == C20_Vote(args.sei > 150000)

\* The three stated cases.
C20_High == C20_Flow = C20_Price \/ C20_Flow = C20_SelfExcitation

C20_Medium == C20_Flow = "BREAK" /\ C20_Price = "HOLD" /\ C20_SelfExcitation = "HOLD"

C20_Low == C20_Flow = "HOLD" /\ C20_Price = "BREAK" /\ C20_SelfExcitation = "BREAK"

\* C20: the wall-break confidence is decided by the three BREAK/HOLD votes
\* (flow: beta-adjusted ratio > 1; price: more amplified than dampened days
\* with a positive mean ACF, or a mean ACF above 0.10; self-excitation: SEI
\* above 150): HIGH when another vote shares the flow vote, MEDIUM when flow
\* alone says BREAK, LOW when flow alone says HOLD; each vote combination
\* falls in exactly one of the three cases.
C20_ConfidenceFromVotes ==
    pc = "_estimate_wall_break_probability.return" =>
        /\ ret.re_says = C20_Flow
        /\ ret.acf_says = C20_Price
        /\ ret.sei_says = C20_SelfExcitation
        /\ Cardinality({c \in {"HIGH", "MEDIUM", "LOW"} :
                           \/ c = "HIGH" /\ C20_High
                           \/ c = "MEDIUM" /\ C20_Medium
                           \/ c = "LOW" /\ C20_Low}) = 1
        /\ ret.confidence = (IF C20_High THEN "HIGH" ELSE IF C20_Medium THEN "MEDIUM" ELSE "LOW")

\* Flow says HOLD against both other votes.
C20_Witness ==
    /\ pc = "_estimate_wall_break_probability.return"
    /\ ret.re_says = "HOLD" /\ ret.acf_says = "BREAK" /\ ret.sei_says = "BREAK"
    /\ ret.confidence = "LOW"

\* Flow says BREAK against both other votes.
C20_WitnessMedium ==
    /\ pc = "_estimate_wall_break_probability.return"
    /\ ret.re_says = "BREAK" /\ ret.acf_says = "HOLD" /\ ret.sei_says = "HOLD"
    /\ ret.confidence = "MEDIUM"

\* Flow and self-excitation say BREAK, price says HOLD.
C20_WitnessHigh ==
    /\ pc = "_estimate_wall_break_probability.return"
    /\ ret.re_says = "BREAK" /\ ret.acf_says = "HOLD" /\ ret.sei_says = "BREAK"
    /\ ret.confidence = "HIGH"

----------------------------------------------------------------------------
(* Level actions: one call of _build_level_actions per behaviour           *)

\* Levels around spot 100.00; no two of them are exactly 0.3 % apart, where
\* the binary quotient would decide the comparison.
LevelInputs ==
    [spot : {10000}, re_regime : {"LAMINAR", "TURBULENT"},
     max_pain : {0, 10000, 9940}, call_wall : {0, 10040, 10500},
     put_wall : {0, 9960, 9500}, flip_point : {None, 10020, 9980},
     ags : {0, 10000, 10025}, ch_floor : {None, 9980, 9800},
     ch_ceiling : {None, 10060, 10200}, vwap_level : {None, 10015, 9985},
     geometry : {<<0, 0>>, <<200, 10>>}]

CallBuildLevelActions ==
    /\ pc = "_build_level_actions"
    /\ ret' = build_level_actions(args.spot, args.re_regime, args.max_pain, args.call_wall,
                                  args.put_wall, args.flip_point, args.ags, args.ch_floor,
                                  args.ch_ceiling, args.vwap_level, args.geometry[1],
                                  args.geometry[2])
    /\ pc' = "_build_level_actions.return"
    /\ UNCHANGED args

InitLevels == pc = "_build_level_actions" /\ args \in LevelInputs /\ ret = NoResult

NextLevels == CallBuildLevelActions

SpecLevels == InitLevels /\ [][NextLevels]_vars

\* The entries generated for the request, before consolidation.
C21_Generated ==
    GeneratedLevelActions(args.spot, args.re_regime, args.max_pain, args.call_wall,
                          args.put_wall, args.flip_point, args.ags, args.ch_floor,
                          args.ch_ceiling, args.vwap_level)

\* The generated entries an output entry stands for.
C21_Members(entry) ==
    {i \in 1..Len(C21_Generated) :
        \E k \in 1..Len(entry.label) : entry.label[k] = C21_Generated[i].label[1]}

\* Every generated level is in exactly one output entry, and an entry has the
\* level, type, distance and action of its highest-priority member.
C21_Partition ==
    /\ \A i \in 1..Len(C21_Generated) :
           Cardinality({e \in 1..Len(ret) : i \in C21_Members(ret[e])}) = 1
    /\ \A e \in 1..Len(ret) :
           /\ Len(ret[e].label) = Cardinality(C21_Members(ret[e]))
           /\ \E i \in C21_Members(ret[e]) :
                  /\ \A j \in C21_Members(ret[e]) :
                         TypePriority(C21_Generated[i].type)
                             <= TypePriority(C21_Generated[j].type)
                  /\ ret[e].level = C21_Generated[i].level
                  /\ ret[e].type = C21_Generated[i].type
                  /\ ret[e].distance_pct = C21_Generated[i].distance_pct
                  /\ ret[e].action = C21_Generated[i].action

\* C21 as stated: generated levels within 0.3 % of each other end in one
\* composite entry, so that no two entries of level_actions are closer than
\* 0.3 % to each other; the composite carries the level, type, distance and
\* action of its highest-priority member and the labels of all its members,
\* and every generated level appears in exactly one entry.
C21_NearbyLevelsMerged ==
    pc = "_build_level_actions.return" =>
        /\ C21_Partition
        /\ \A i, j \in 1..Len(C21_Generated) :
               SameLevel(C21_Generated[i], C21_Generated[j], args.spot) =>
                   \E e \in 1..Len(ret) : {i, j} \subseteq C21_Members(ret[e])
        /\ \A e, f \in 1..Len(ret) : e # f => ~SameLevel(ret[e], ret[f], args.spot)

\* What the code does: an entry collects the levels within 0.3 % of its
\* first-generated member only, and the list is sorted by distance.
C21_GroupedAroundFirst ==
    pc = "_build_level_actions.return" =>
        /\ C21_Partition
        /\ \A e \in 1..Len(ret) :
               LET first == CHOOSE i \in C21_Members(ret[e]) :
                                \A j \in C21_Members(ret[e]) : i <= j
               IN  \A j \in C21_Members(ret[e]) :
                       SameLevel(C21_Generated[first], C21_Generated[j], args.spot)
        /\ \A e \in 1..Len(ret) - 1 : ret[e].distance_pct <= ret[e + 1].distance_pct

\* Max pain 100.00 takes the flip point 100.20 into its group, whose entry
\* stands at 100.20; the call wall 100.40 stays apart, 0.2 % away.
C21_CloseEntries ==
    /\ pc = "_build_level_actions.return"
    /\ args.max_pain = 10000 /\ args.flip_point = 10020 /\ args.call_wall = 10040
    /\ \E e, f \in 1..Len(ret) :
           /\ ret[e].type = "flip_point" /\ ret[e].level = 10020
           /\ ret[e].label = <<"GEX Flip Point (Regime Change)", "Max Pain">>
           /\ ret[f].type = "call_wall" /\ ret[f].level = 10040
----------------------------------------------------------------------------
(* Strikes of the momentum positions                                       *)

StrikeSpots == {1500, 2400, 6100, 10150, 10300}

\* Requests over every price tier, with ATRs small enough for the envelope
\* to bind.
StrikeInputs ==
    {DealerMapArgs(spot, dte, ScanTickerAcf(<<v>>, EmptySei), re,
                   Gex("NEGATIVE_GAMMA", flip, 0, "DISPERSED"),
                   Channel(None, None, spot), spot, Walls((spot * 27) \div 25, (spot * 23) \div 25),
                   Tech(0, "IN_LINE", 100, atr, iv)) :
        spot \in StrikeSpots, v \in {-2000, 0, 2000},
        re \in {r \in ReynoldsReadings : r.reynolds_number \in {3000, 15000}},
        flip \in {1000, 20000}, atr \in {0, 10, 20, 50, 200}, iv \in {80, 100, 170},
        dte \in {1, 4, 9}}

InitStrikes == pc = "classify_thesis" /\ args \in StrikeInputs /\ ret = NoResult

SpecStrikes == InitStrikes /\ [][NextThesis]_vars

\* A momentum bundle was returned for a request with ATR > 0 and DTE > 0.
C22_Scenario ==
    /\ pc = "classify_thesis.return"
    /\ ret.thesis \in MomentumTheses
    /\ args.technicals.atr.atr > 0
    /\ args.dte > 0

\* The thesis position's strike, in cents.
C22_Strike == ret.positions[1].strike

\* 1.5 * ATR * sqrt(DTE), in milli-cents.
C22_MaxMove == AtrMaxMove(args.technicals.atr.atr, args.dte, 3, 2)

C22_OnIncrement == C22_Strike % StrikeIncrement(args.spot) = 0

\* C22: for a momentum thesis with ATR > 0 and DTE > 0, the strike of the
\* thesis position is a multiple of the increment of spot's price tier and
\* lies within spot +/- 1.5 * ATR * sqrt(DTE).
C22_StrikeInEnvelope ==
    C22_Scenario =>
        /\ C22_OnIncrement
        /\ 1000 * Abs(C22_Strike - args.spot) <= C22_MaxMove

\* What the code guarantees: the strike is on the increment, and the rounding
\* after the clamp can leave it up to half an increment outside the envelope.
C22_StrikeNearEnvelope ==
    C22_Scenario =>
        /\ C22_OnIncrement
        /\ 2000 * Abs(C22_Strike - args.spot)
               <= 2 * C22_MaxMove + 1000 * StrikeIncrement(args.spot)

\* Spot 103.00, ATR 0.20, DTE 1, bullish: the envelope ends at 103.30 and the
\* call is struck at 105.00.
C22_StrikeOutside ==
    /\ C22_Scenario
    /\ args.spot = 10300 /\ args.technicals.atr.atr = 20 /\ args.dte = 1
    /\ ret.bias.direction = "BULLISH"
    /\ C22_Strike = 10500

\* The envelope is wide enough to hold a strike on the increment.
C22_StrikeInside ==
    /\ C22_Scenario
    /\ C22_Strike # args.spot
    /\ 1000 * Abs(C22_Strike - args.spot) <= C22_MaxMove

----------------------------------------------------------------------------
(* acf_engine.compute_self_excitation                                      *)
(* The function turns its prices into the series of percentage changes     *)
(* before anything else; a request is given by that series.  Returns in    *)
(* 1e-5 (100 = 0.1 %), sei in 1e-3, avg_cluster_size in 1e-1.              *)

\* Fewest returns the function analyses.
MinReturns == 20

\* threshold_pct / 100 with the default threshold_pct = 0.1.
ExcitationThreshold == 100

\* _empty_sei().
empty_sei ==
    [n_clusters |-> 0, avg_cluster_size |-> 0, max_cluster_size |-> 0,
     total_excitation_events |-> 0] @@ EmptySei

\* The loop's locals before the first return.
ExcitationStart == [clusters |-> << >>, current_cluster |-> << >>, last_sign |-> 0]

\* A flush that also keeps a run of one return.
FlushKeepsSingles(st) ==
    IF Len(st.current_cluster) >= 1
    THEN Append(st.clusters, st.current_cluster)
    ELSE st.clusters

\* clusters after "if len(current_cluster) >= 2: clusters.append(...)".
Flush(st) ==
    IF Len(st.current_cluster) >= 2
    THEN Append(st.clusters, st.current_cluster)
    ELSE st.clusters

\* One iteration of "for r in returns".
ExcitationStep(st, r) ==
    IF Abs(r) >= ExcitationThreshold
    THEN LET sign == IF r > 0 THEN 1 ELSE -1
         IN  IF sign = st.last_sign \/ st.last_sign = 0
             THEN [st EXCEPT !.current_cluster = Append(@, Abs(r)), !.last_sign = sign]
             ELSE [clusters |-> Flush(st), current_cluster |-> <<Abs(r)>>,
                   last_sign |-> sign]
    ELSE [clusters |-> Flush(st), current_cluster |-> << >>, last_sign |-> 0]

\* The locals after the first n returns.
RECURSIVE ExcitationLoop(_, _)
ExcitationLoop(returns, n) ==
    IF n = 0 THEN ExcitationStart
    ELSE ExcitationStep(ExcitationLoop(returns, n - 1), returns[n])

\* The clusters list after the loop and the final flush.
Clusters(returns) == Flush(ExcitationLoop(returns, Len(returns)))

\* len(c) * sum(c) * 10000, in 1e-3.
ClusterScore(c) == Len(c) * SumSeq(c) * 100

\* The regime of a mean score total / n (1e-3).
ExcitationRegime(total, n) ==
    IF total > 150000 * n THEN "HIGH_EXCITATION"
    ELSE IF total > 80000 * n THEN "MODERATE_EXCITATION"
    ELSE IF total > 40000 * n THEN "LOW_EXCITATION"
    ELSE "NONE"

compute_self_excitation(returns) ==
    IF Len(returns) < MinReturns THEN empty_sei
    ELSE LET clusters == Clusters(returns)
             n == Len(clusters)
             total == SumSeq([i \in 1..n |-> ClusterScore(clusters[i])])
             events == SumSeq([i \in 1..n |-> Len(clusters[i])])
         IN  IF n = 0 THEN empty_sei
             ELSE [sei |-> RoundHalfEven(total, n),
                   regime |-> ExcitationRegime(total, n),
                   n_clusters |-> n,
                   avg_cluster_size |-> RoundHalfEven(10 * events, n),
                   max_cluster_size |->
                       CHOOSE m \in {Len(clusters[i]) : i \in 1..n} :
                           \A i \in 1..n : Len(clusters[i]) <= m,
                   total_excitation_events |-> events]

\* Longest varied stretch of a sampled series.
MaxBurst == 5

\* Returns on, above and below the threshold, of both signs.
BurstReturns == {-160, -100, -40, 100, 160}

Bursts == UNION {[1..n -> BurstReturns] : n \in 0..MaxBurst}

\* A stretch of flat prices.
Quiet(n) == [i \in 1..n |-> 0]

\* A burst before or after a quiet stretch; the shortest series fall under
\* MinReturns.
ReturnSeries ==
    {b \o Quiet(n) : b \in Bursts, n \in {MinReturns - MaxBurst - 1, MinReturns}}
    \cup {Quiet(n) \o b : b \in Bursts, n \in {MinReturns - MaxBurst - 1, MinReturns}}

CallComputeSelfExcitation ==
    /\ pc = "compute_self_excitation"
    /\ ret' = compute_self_excitation(args.returns)
    /\ pc' = "compute_self_excitation.return"
    /\ UNCHANGED args

InitExcitation ==
    /\ pc = "compute_self_excitation"
    /\ \E q \in ReturnSeries : args = [returns |-> q]
    /\ ret = NoResult

NextExcitation == CallComputeSelfExcitation

SpecExcitation == InitExcitation /\ [][NextExcitation]_vars

\* Return i reaches the threshold.
C23_Qualifies(q, i) == Abs(q[i]) >= ExcitationThreshold

\* Returns i and j have one sign.
C23_SameSign(q, i, j) == (q[i] > 0) <=> (q[j] > 0)

\* i..j is a run: at least two returns, all qualifying, all of one sign.
C23_IsRun(q, i, j) ==
    /\ i < j
    /\ \A k \in i..j : C23_Qualifies(q, k) /\ C23_SameSign(q, i, k)

\* The maximal runs of q, as <<first, last>> pairs.
C23_MaximalRuns(q) ==
    {<<i, j>> \in (1..Len(q)) \X (1..Len(q)) :
        /\ C23_IsRun(q, i, j)
        /\ ~(i > 1 /\ C23_IsRun(q, i - 1, j))
        /\ ~(j < Len(q) /\ C23_IsRun(q, i, j + 1))}

\* The magnitudes of the returns i..j.
C23_Magnitudes(q, i, j) == [k \in 1..(j - i + 1) |-> Abs(q[i + k - 1])]

\* The maximal runs in order of position.
RECURSIVE C23_RunsInOrder(_, _)
C23_RunsInOrder(q, runs) ==
    IF runs = {} THEN << >>
    ELSE LET first == CHOOSE r \in runs : \A o \in runs : r[1] <= o[1]
         IN  <<C23_Magnitudes(q, first[1], first[2])>>
             \o C23_RunsInOrder(q, runs \ {first})

C23_Runs == C23_RunsInOrder(args.returns, C23_MaximalRuns(args.returns))

\* Sum of the scores of the runs, in 1e-3.
C23_Total(runs) == SumSeq([i \in 1..Len(runs) |-> Len(runs[i]) * SumSeq(runs[i]) * 100])

C23_Analysed == pc = "compute_self_excitation.return" /\ Len(args.returns) >= MinReturns

\* C23: the recorded clusters are exactly the maximal runs of two or more
\* consecutive same-sign returns that each reach the 0.1 % threshold; each
\* scores size * sum|returns| * 10,000, SEI is the mean score, the regime is
\* HIGH above 150, MODERATE above 80, LOW above 40, else NONE; fewer than 20
\* returns, or no run, give SEI 0 and NONE.
C23_ClustersAreMaximalRuns ==
    pc = "compute_self_excitation.return" =>
        LET runs == C23_Runs
            n == Len(runs)
            total == C23_Total(runs)
        IN  /\ Len(args.returns) >= MinReturns => Clusters(args.returns) = runs
            /\ IF Len(args.returns) >= MinReturns /\ n > 0
               THEN /\ ret.n_clusters = n
                    /\ ret.total_excitation_events = SumSeq([i \in 1..n |-> Len(runs[i])])
                    /\ ret.sei = RoundHalfEven(total, n)
                    /\ ret.regime = "HIGH_EXCITATION" <=> total > 150000 * n
                    /\ ret.regime = "MODERATE_EXCITATION" <=>
                           total > 80000 * n /\ total <= 150000 * n
                    /\ ret.regime = "LOW_EXCITATION" <=>
                           total > 40000 * n /\ total <= 80000 * n
                    /\ ret.regime = "NONE" <=> total <= 40000 * n
               ELSE ret.sei = 0 /\ ret.regime = "NONE" /\ ret.n_clusters = 0

\* A sign flip inside a stretch of qualifying returns: two runs, the second
\* starting at the flipping return, and a lone qualifying return discarded.
C23_Witness ==
    /\ C23_Analysed
    /\ args.returns = <<160, 160, -100, -100, 100>> \o Quiet(MinReturns)
    /\ ret.n_clusters = 2
    /\ ret.total_excitation_events = 4
    /\ ret.sei = 52000
    /\ ret.regime = "LOW_EXCITATION"

\* A sub-threshold return splits a run that ends with the series.
C23_WitnessReset ==
    /\ C23_Analysed
    /\ args.returns = Quiet(MinReturns) \o <<160, 160, -40, 160, 160>>
    /\ ret.n_clusters = 2
    /\ ret.max_cluster_size = 2

\* A series of fewer than 20 returns holding a run.
C23_WitnessShort ==
    /\ pc = "compute_self_excitation.return"
    /\ Len(args.returns) < MinReturns
    /\ C23_Runs # << >>
    /\ ret = empty_sei

C23_WitnessHigh == C23_Analysed /\ ret.regime = "HIGH_EXCITATION"

----------------------------------------------------------------------------
(* collision_time.compute_collision_times                                  *)
(* spot, prices, distance and atr_dollar in cents; expected days in 1e-1;  *)
(* prob_within_dte in 1e-1 %.  levels is the dict's items in order.        *)

\* A multiplier that slows arrival down in a turbulent regime.
RegimeMultTurbulentSlows(acf_regime, reynolds_regime) ==
    IF reynolds_regime = "TURBULENT" THEN 14
    ELSE IF reynolds_regime = "TRANSITIONAL" THEN 8
    ELSE IF acf_regime = "LONG_GAMMA" THEN 14
    ELSE 10

\* regime_mult in tenths.
RegimeMult(acf_regime, reynolds_regime) ==
    IF reynolds_regime = "TURBULENT" THEN 6
    ELSE IF reynolds_regime = "TRANSITIONAL" THEN 8
    ELSE IF acf_regime = "LONG_GAMMA" THEN 14
    ELSE 10

\* round(100 * erfc(distance / (sigma * sqrt(2 * dte))), 1) at the sampled
\* distances, ATRs and expiries.
ErfcTable ==
    <<50, 100, 5>> :> 823 @@ <<50, 100, 10>> :> 874 @@ <<50, 200, 5>> :> 911
    @@ <<50, 200, 10>> :> 937 @@ <<200, 100, 5>> :> 371 @@ <<200, 100, 10>> :> 527
    @@ <<200, 200, 5>> :> 655 @@ <<200, 200, 10>> :> 752 @@ <<500, 100, 5>> :> 25
    @@ <<500, 100, 10>> :> 114 @@ <<500, 200, 5>> :> 264 @@ <<500, 200, 10>> :> 429

\* prob_within_dte after the clamp to [0.01, 0.99].
ProbWithinDte(distance, sigma, dte) ==
    IF dte > 0 /\ sigma > 0 /\ distance > 0
    THEN Min(990, Max(10, ErfcTable[<<distance, sigma, dte>>]))
    ELSE IF distance < 1 THEN 950 ELSE 10

\* The urgency of an adjusted time num / den days.
Urgency(num, den, dte) ==
    IF num < den THEN "NOW"
    ELSE IF num < 2 * den THEN "IMMINENT"
    ELSE IF num <= dte * den THEN "SOON"
    ELSE IF num > 2 * dte * den THEN "UNLIKELY"
    ELSE "POSSIBLE"

\* The entry appended for one level.
CollisionEntry(label, price, spot, sigma, regime_mult, dte) ==
    LET distance == Abs(spot - price)
        \* t_raw = raw_num / raw_den days
        raw_num == IF distance < 1 THEN 0 ELSE distance * distance
        raw_den == 2 * sigma * sigma
    IN  [level_label |-> label,
         level_price |-> price,
         distance |-> distance,
         distance_pct |-> RoundHalfEven(10000 * distance, spot),
         expected_days_raw |-> RoundHalfEven(10 * raw_num, raw_den),
         expected_days_adj |-> RoundHalfEven(raw_num * regime_mult, raw_den),
         regime_mult |-> regime_mult,
         prob_within_dte |-> ProbWithinDte(distance, sigma, dte),
         urgency |-> Urgency(raw_num * regime_mult, 10 * raw_den, dte),
         side |-> IF price > spot THEN "above" ELSE "below"]

\* list.sort(key=expected_days_adj): stable.
RECURSIVE ByExpectedDays(_)
ByExpectedDays(q) ==
    IF q = << >> THEN << >>
    ELSE LET i == CHOOSE k \in 1..Len(q) :
                      /\ \A j \in 1..Len(q) : q[k].expected_days_adj <= q[j].expected_days_adj
                      /\ \A j \in 1..(k - 1) : q[j].expected_days_adj # q[k].expected_days_adj
         IN  <<q[i]>> \o ByExpectedDays(SubSeq(q, 1, i - 1) \o SubSeq(q, i + 1, Len(q)))

\* "if not price or price <= 0: continue".
SkippedLevel(price) == price = None \/ price <= 0

RECURSIVE CollisionEntries(_, _, _, _, _)
CollisionEntries(levels, spot, sigma, regime_mult, dte) ==
    IF levels = << >> THEN << >>
    ELSE (IF SkippedLevel(Head(levels).price) THEN << >>
          ELSE <<CollisionEntry(Head(levels).label, Head(levels).price, spot, sigma,
                                regime_mult, dte)>>)
         \o CollisionEntries(Tail(levels), spot, sigma, regime_mult, dte)

compute_collision_times(spot, levels, atr_dollar, acf_regime, reynolds_regime, dte) ==
    IF atr_dollar <= 0 \/ spot <= 0 THEN << >>
    ELSE ByExpectedDays(CollisionEntries(levels, spot, atr_dollar,
                                         RegimeMult(acf_regime, reynolds_regime), dte))

\* Most levels in one sampled request.
MaxLevels == 3

\* The keys main.dealer_map passes first.
LevelLabels == <<"call_wall", "put_wall", "max_pain", "flip_point">>

LevelPrices == {None, 0, -100, 10000, 10050, 10200, 9500}

CollisionInputs ==
    [spot : {0, 10000},
     levels : UNION {[1..n -> LevelPrices] : n \in 0..MaxLevels},
     atr_dollar : {0, 100, 200},
     acf_regime : {"NEUTRAL", "LONG_GAMMA"},
     reynolds_regime : {"LAMINAR", "TRANSITIONAL", "TURBULENT"},
     dte : {0, 5, 10}]

\* The items of the levels dict of a request.
LevelItems(prices) == [i \in 1..Len(prices) |-> [label |-> LevelLabels[i], price |-> prices[i]]]

CollisionTimesOf(a) ==
    compute_collision_times(a.spot, LevelItems(a.levels), a.atr_dollar, a.acf_regime,
                            a.reynolds_regime, a.dte)

CallComputeCollisionTimes ==
    /\ pc = "compute_collision_times"
    /\ ret' = CollisionTimesOf(args)
    /\ pc' = "compute_collision_times.return"
    /\ UNCHANGED args

InitCollision == pc = "compute_collision_times" /\ args \in CollisionInputs /\ ret = NoResult

NextCollision == CallComputeCollisionTimes

SpecCollision == InitCollision /\ [][NextCollision]_vars

\* The same request under a laminar Reynolds regime.
C24_Laminar == CollisionTimesOf([args EXCEPT !.reynolds_regime = "LAMINAR"])

\* The entry of a label in a result.
C24_Entry(result, label) ==
    CHOOSE e \in {result[i] : i \in 1..Len(result)} : e.level_label = label

C24_Labels == {ret[i].level_label : i \in 1..Len(ret)}

C24_Turbulent == pc = "compute_collision_times.return" /\ args.reynolds_regime = "TURBULENT"

C24_Sorted ==
    /\ \A i \in 1..(Len(ret) - 1) : ret[i].expected_days_adj <= ret[i + 1].expected_days_adj
    /\ C24_Labels = {LevelLabels[i] : i \in {k \in 1..Len(args.levels) :
                                                  ~SkippedLevel(args.levels[k])}}
    /\ Len(ret) = Cardinality(C24_Labels)

\* C24: for the same spot, level, ATR and DTE the adjusted expected collision
\* time under TURBULENT is strictly smaller than under LAMINAR; the entries
\* are sorted ascending by adjusted time and skip levels None or <= 0.
C24_TurbulentStrictlyFaster ==
    /\ pc = "compute_collision_times.return" /\ args.atr_dollar > 0 /\ args.spot > 0
           => C24_Sorted
    /\ C24_Turbulent =>
           \A l \in C24_Labels :
               C24_Entry(ret, l).expected_days_adj < C24_Entry(C24_Laminar, l).expected_days_adj

\* The turbulent time is never larger, and is smaller whenever the raw time
\* exceeds a quarter of a day; a level at spot, or one reached in less, can
\* report the same time in both regimes.
C24_TurbulentNotSlower ==
    /\ pc = "compute_collision_times.return" /\ args.atr_dollar > 0 /\ args.spot > 0
           => C24_Sorted
    /\ C24_Turbulent =>
           \A l \in C24_Labels :
               LET t == C24_Entry(ret, l)
                   lam == C24_Entry(C24_Laminar, l)
               IN  /\ t.regime_mult = 6
                   /\ lam.regime_mult = IF args.acf_regime = "LONG_GAMMA" THEN 14 ELSE 10
                   /\ t.expected_days_adj <= lam.expected_days_adj
                   /\ 4 * t.distance * t.distance > 2 * args.atr_dollar * args.atr_dollar
                          => t.expected_days_adj < lam.expected_days_adj

\* Turbulent, 5.00 away with ATR 2.00: 1.9 days against 3.1 laminar; the
\* skipped levels leave one entry.
C24_Witness ==
    /\ C24_Turbulent
    /\ args.levels = <<None, 9500, 0>>
    /\ args.atr_dollar = 200 /\ args.acf_regime = "NEUTRAL"
    /\ Len(ret) = 1
    /\ ret[1].expected_days_adj = 19
    /\ C24_Entry(C24_Laminar, "put_wall").expected_days_adj = 31

\* Turbulent, 0.50 away with ATR 2.00: 0.0 days in both regimes.
C24_SameTime ==
    /\ C24_Turbulent
    /\ args.levels = <<10050>> /\ args.atr_dollar = 200 /\ args.acf_regime = "NEUTRAL"
    /\ Len(ret) = 1
    /\ ret[1].expected_days_adj = 0
    /\ C24_Entry(C24_Laminar, "call_wall").expected_days_adj = 0

\* The sort moved a later level in front of an earlier one.
C24_WitnessSorted ==
    /\ pc = "compute_collision_times.return"
    /\ Len(ret) = 3
    /\ ret[1].level_label = "max_pain"
    /\ ret[1].expected_days_adj < ret[2].expected_days_adj

----------------------------------------------------------------------------
(* Uses of directional_engine._collision_probability                       *)

ProbabilityInputs ==
    [spot : {10000}, level : {-100, 0, 9500, 10000, 10010, 10100, 10500, 13000},
     atr_dollar : {-50, 0, 50, 200, 800}, dte : {-1, 0, 1, 10, 60}]

\* (atr_dollar, dte) pairs: no ATR, no days left, narrow to wide envelopes.
Envelopes == {<<0, 10>>, <<200, 0>>, <<50, 1>>, <<200, 1>>, <<200, 10>>, <<800, 60>>}

ProbabilityLevelInputs ==
    [spot : {10000}, re_regime : {"LAMINAR", "TURBULENT"}, max_pain : {10000},
     call_wall : {0, 10040, 10500}, put_wall : {0, 9500}, flip_point : {None, 10020},
     ags : {0}, ch_floor : {None}, ch_ceiling : {None, 13000}, vwap_level : {None},
     geometry : Envelopes]

ProbabilityWallInputs ==
    { [re_gamma |-> re, acf1 |-> 800, pct_amp |-> 200, pct_damp |-> 100,
       phase_regime |-> "LAMINAR", beta |-> 100, atr_dollar |-> g[1], dte |-> g[2],
       call_wall_strike |-> g[3], put_wall_strike |-> g[4], spot |-> spot,
       sei |-> 0, entropy_regime |-> "DISPERSED", gex_regime |-> gr] :
        re \in {5000, 15000}, g \in WallGeometries, spot \in {0, 10000},
        gr \in GexRegimes }

CallCollisionProbability ==
    /\ pc = "_collision_probability"
    /\ ret' = CollisionProbability(args.spot, args.level, args.atr_dollar, args.dte)
    /\ pc' = "_collision_probability.return"
    /\ UNCHANGED args

InitProbability ==
    \/ pc = "_collision_probability" /\ args \in ProbabilityInputs /\ ret = NoResult
    \/ pc = "_build_level_actions" /\ args \in ProbabilityLevelInputs /\ ret = NoResult
    \/ pc = "_estimate_wall_break_probability" /\ args \in ProbabilityWallInputs
       /\ ret = NoResult

NextProbability ==
    \/ CallCollisionProbability
    \/ CallBuildLevelActions
    \/ CallEstimateWallBreak

SpecProbability == InitProbability /\ [][NextProbability]_vars

C25_Guard == args.atr_dollar <= 0 \/ args.dte <= 0 \/ args.level <= 0

\* 100 * |spot - level|, the distance in cents.
C25_Distance == Abs(args.spot - args.level)

\* 10000 * ATR * sqrt(DTE) / 2, to be compared with probability * distance.
C25_HalfMove == args.atr_dollar * SqrtMilli(args.dte) * 5

\* C25: _collision_probability returns 0.5 whenever ATR, DTE or level is
\* <= 0 (tested first), 0.95 for a level within 0.01 of spot, and otherwise
\* ATR * sqrt(DTE) / (2 * distance) clamped to [0.05, 0.95]; so the collision
\* probability of every level action and of both walls is within [5 %, 95 %].
C25_CollisionProbability ==
    /\ pc = "_collision_probability.return" =>
           IF C25_Guard THEN ret = 5000
           ELSE IF C25_Distance < 1 THEN ret = 9500
           ELSE /\ 500 <= ret /\ ret <= 9500
                /\ ret < 9500 => C25_HalfMove < (ret + 1) * C25_Distance
                /\ ret > 500 => ret * C25_Distance <= C25_HalfMove
    /\ pc = "_build_level_actions.return" =>
           \A i \in 1..Len(ret) : 50 <= ret[i].collision_prob /\ ret[i].collision_prob <= 950
    /\ pc = "_estimate_wall_break_probability.return" =>
           /\ 50 <= ret.collision_prob_call_wall /\ ret.collision_prob_call_wall <= 950
           /\ 50 <= ret.collision_prob_put_wall /\ ret.collision_prob_put_wall <= 950

\* Level 101.00 from spot 100.00 with ATR 2.00 over 1 day: 2 / (2 * 1) clamps
\* to 0.95; the same level with ATR 0.50: 0.25.
C25_Witness ==
    /\ pc = "_collision_probability.return"
    /\ args.level = 10100 /\ args.atr_dollar = 50 /\ args.dte = 1
    /\ ret = 2500

\* A level at spot without ATR: the guard answers before the at-spot test.
C25_WitnessGuardFirst ==
    /\ pc = "_collision_probability.return"
    /\ args.level = args.spot /\ args.atr_dollar = 0
    /\ ret = 5000

C25_WitnessAtSpot ==
    /\ pc = "_collision_probability.return"
    /\ args.level = args.spot /\ ~C25_Guard
    /\ ret = 9500

\* A far level with a narrow envelope sits on the 5 % floor, a near one on
\* the 95 % cap.
C25_WitnessLevels ==
    /\ pc = "_build_level_actions.return"
    /\ \E i, j \in 1..Len(ret) : ret[i].collision_prob = 50 /\ ret[j].collision_prob = 950

C25_WitnessWalls ==
    /\ pc = "_estimate_wall_break_probability.return"
    /\ ret.collision_prob_call_wall = 950
    /\ ret.collision_prob_put_wall \in 51..949

----------------------------------------------------------------------------
(* Consistency of the flow regime within one bundle                        *)

\* The bundle's thesis is one the tree reaches only with an effective ratio
\* above 1.
C26_FlowMomentum ==
    /\ pc = "classify_thesis.return"
    /\ ret.thesis \in {"MOMENTUM_BREAKOUT", "MOMENTUM_EARLY"}

\* The level-action entries led by a wall.
C26_WallActions ==
    {ret.level_actions[i] : i \in {k \in 1..Len(ret.level_actions) :
                                       ret.level_actions[k].type \in {"call_wall", "put_wall"}}}

C26_BreakVariants == \A w \in C26_WallActions : w.expectation[1] \in {"EXPECT BREAKOUT", "EXPECT BREAKDOWN"}

\* C26: whenever the thesis is MOMENTUM_BREAKOUT or MOMENTUM_EARLY, the
\* wall-break vote re_says is BREAK and the call-wall and put-wall level
\* actions are the breakout / breakdown variants.
C26_ConsistentFlowRegime ==
    C26_FlowMomentum => (ret.wall_break.re_says = "BREAK" /\ C26_BreakVariants)

\* The vote alone.
C26_VoteFollowsThesis == C26_FlowMomentum => ret.wall_break.re_says = "BREAK"

\* The level actions alone.
C26_LevelsFollowThesis == C26_FlowMomentum => C26_BreakVariants

\* Entropy forcing: a momentum thesis whose beta-adjusted ratio is not above 1
\* votes HOLD.
C26_ForcedButHold ==
    /\ C26_FlowMomentum
    /\ C18_Forced(args)
    /\ ~RatGt(C18_BetaAdjusted(args), Rat(1, 1))
    /\ ret.wall_break.re_says = "HOLD"

\* Beta adjustment: a LAMINAR reading lifted above 1 by a low beta keeps the
\* laminar wall texts.
C26_LaminarTexts ==
    /\ C26_FlowMomentum
    /\ args.reynolds.regime = "LAMINAR"
    /\ ret.wall_break.re_says = "BREAK"
    /\ \E w \in C26_WallActions : w.expectation[1] \in {"EXPECT REVERSAL", "EXPECT BOUNCE"}

\* A bundle whose three readings agree.
C26_Agreeing ==
    /\ C26_FlowMomentum
    /\ ret.wall_break.re_says = "BREAK"
    /\ C26_WallActions # {}
    /\ C26_BreakVariants

----------------------------------------------------------------------------
(* Momentum bundles of a chain without a flip point                        *)

\* The request main.dealer_map builds for a chain whose flip point is fp.
C27_Request(fp) ==
    DealerMapArgs(10000, 10, ScanTickerAcf(<<0>>, EmptySei),
                  [reynolds_number |-> 15000, regime |-> "TURBULENT"],
                  Gex("NEGATIVE_GAMMA", fp, 0, "DISPERSED"), Channel(9500, 10500, 10000),
                  10000, Walls(10500, 9500), Tech(0, "IN_LINE", 100, 200, 100))

\* A momentum bundle for a request whose flip point is spot.
C27_NoFlipMomentum ==
    /\ pc = "classify_thesis.return"
    /\ args.flip_point = args.spot
    /\ ret.thesis \in MomentumTheses

\* A technical signal strong enough to override the positioning direction.
C27_StrongTech ==
    \/ Abs(args.technicals.trend.trend_score) >= 2
    \/ Abs(args.technicals.moving_averages.alignment) >= 3

\* The entries of the thesis branch.
C27_ThesisPositions ==
    {ret.positions[i] : i \in {k \in 1..Len(ret.positions) :
                                   ret.positions[k].edge_type = "AGAINST_DEALER"}}

\* C27: a chain without a flip point is passed on with spot as its flip
\* point; a momentum bundle for it, absent a strong technical signal, has bias
\* BEARISH / BUY PUTS and PUT thesis positions.
C27_BearishWithoutFlip ==
    /\ C27_Request(None).flip_point = 10000
    /\ C27_Request(0).flip_point = 10000
    /\ C27_NoFlipMomentum /\ ~C27_StrongTech =>
           /\ ret.bias.direction = "BEARISH"
           /\ ret.bias.action = "BUY PUTS"
           /\ C27_ThesisPositions # {}
           /\ \A p \in C27_ThesisPositions : p.option_type = "PUT"

C27_Witness ==
    /\ C27_NoFlipMomentum /\ ~C27_StrongTech
    /\ ret.bias.direction = "BEARISH"
    /\ ret.bias.action = "BUY PUTS"
    /\ ret.positions[1].option_type = "PUT"

\* A strong bullish signal turns the same bundle bullish.
C27_WitnessOverride ==
    /\ C27_NoFlipMomentum /\ C27_StrongTech
    /\ ret.bias.direction = "BULLISH"
    /\ ret.positions[1].option_type = "CALL"

----------------------------------------------------------------------------
(* papertrader: scanner and monitor runs over one SQLite database          *)
(*                                                                         *)
(* Here args is the committed database together with the clock, pc maps    *)
(* each run to its position and ret maps it to its locals.  Times are      *)
(* whole days counted at the 16:00 close, prices are in dollars, premiums  *)
(* in cents.  A NULL text column is "" and a NULL number is None.  The     *)
(* scans and strike_iv_snapshots tables are kept only as the writes they   *)
(* cost; the P&L, exit price and time, scan_id and attribution columns of  *)
(* a trade are left out.                                                   *)

\* Scanner and monitor runs started.
MaxRuns == 2

\* Rows of the trades table.
MaxTrades == 2

\* The last day of the clock.
LastDay == 2

Watchlist == <<"SPY", "QQQ">>

Scanners == {"scan_1", "scan_2"}

Monitors == {"check_1", "check_2"}

NoLock == "none"

DEFAULT_MAX_HOLD_DAYS == 14

\* The tables a connection reads and writes.
Tables(trades, price_checks) ==
    [trades |-> trades, price_checks |-> price_checks]

NoTables == Tables(<< >>, << >>)

Committed == Tables(args.trades, args.price_checks)

\* Locals of a run that has not started.
Idle ==
    [conn |-> NoTables, i |-> 0, open_trades |-> << >>, snap_done |-> {},
     results |-> << >>, spot |-> None, current_premium |-> None]

\* The first INSERT or UPDATE of a connection begins a transaction that holds
\* the database's single write lock until the commit at the end of get_conn;
\* another connection's write meanwhile fails with "database is locked".
InTransaction(p) == args.lock = p

Locked(p) == args.lock \notin {p, NoLock}

\* What a statement of p reads: its own transaction's rows, else the last commit.
View(p) == IF InTransaction(p) THEN ret[p].conn ELSE Committed

\* A probe that matches the CLOSED rows of the contract.
has_open_tradeClosed(trades, ticker, strike, option_type, expiry_date) ==
    \E k \in 1..Len(trades) :
        /\ trades[k].ticker = ticker
        /\ trades[k].strike = strike
        /\ trades[k].option_type = option_type
        /\ expiry_date # None /\ trades[k].expiry_date = expiry_date
        /\ trades[k].status = "CLOSED"

\* expiry_date = ? is never true for a NULL on either side.
has_open_trade(trades, ticker, strike, option_type, expiry_date) ==
    \E k \in 1..Len(trades) :
        /\ trades[k].ticker = ticker
        /\ trades[k].strike = strike
        /\ trades[k].option_type = option_type
        /\ expiry_date # None /\ trades[k].expiry_date = expiry_date
        /\ trades[k].status = "OPEN"

insert_trade(conn, ticker, trade, now) ==
    [conn EXCEPT !.trades = Append(@,
        [id |-> Len(conn.trades) + 1, ticker |-> ticker,
         trade_type |-> trade.trade_type, entry_time |-> now,
         entry_premium |-> trade.entry_premium, option_type |-> trade.option_type,
         strike |-> trade.strike, expiry_date |-> trade.expiry_date,
         target_price |-> trade.target_price, stop_loss_pct |-> trade.stop_loss_pct,
         max_hold_days |-> trade.max_hold_days,
         lower_breakeven |-> trade.lower_breakeven,
         status |-> "OPEN", exit_reason |-> ""])]

get_open_trades(conn) ==
    SelectSeq(conn.trades, LAMBDA t : t.status = "OPEN")

close_trade(conn, trade_id, exit_reason) ==
    [conn EXCEPT !.trades = [k \in 1..Len(@) |->
        IF @[k].id = trade_id
        THEN [@[k] EXCEPT !.exit_reason = exit_reason, !.status = "CLOSED"]
        ELSE @[k]]]

insert_price_check(conn, trade_id, spot) ==
    [conn EXCEPT !.price_checks = Append(@, [trade_id |-> trade_id])]

(* scanner *)

\* A position of the API response; target_price, stop_loss_pct and
\* max_hold_days stand for what the exit-rule parsers read from its texts.
ApiPosition(action, option_type, strike, target_price) ==
    [action |-> action, option_type |-> option_type, strike |-> strike,
     target_price |-> target_price, stop_loss_pct |-> 50, max_hold_days |-> 1]

BuyCall == ApiPosition("BUY", "CALL", 100, 105)

BuyPut == ApiPosition("BUY", "PUT", 95, 100)

\* "-" is the dash the API puts in the option_type of a position without a contract.
Wait == ApiPosition("WAIT", "-", 0, None)

\* The contracts in the responses expire at the close of the last day.
ExpiryDay == LastDay

\* has_ticker is FALSE for a response without the "ticker" key; premium is
\* what pricing returns for the entries of this scan.
Response(has_ticker, expiration, positions, verdict, premium) ==
    [has_ticker |-> has_ticker, expiration |-> expiration, positions |-> positions,
     verdict |-> verdict, premium |-> premium]

NoResponse == Response(FALSE, None, << >>, "", None)

\* What the API may answer for a ticker of the watchlist.
Responses(ticker) ==
    IF ticker = "SPY"
    THEN {NoResponse,
          Response(TRUE, ExpiryDay, <<BuyCall, BuyCall>>, "AVOID", 200),
          Response(FALSE, ExpiryDay, <<Wait, BuyCall>>, "AVOID", 200),
          Response(TRUE, None, <<BuyCall>>, "AVOID", 200)}
    ELSE {NoResponse,
          Response(TRUE, ExpiryDay, <<BuyPut>>, "AVOID", None),
          Response(TRUE, ExpiryDay, <<Wait>>, "BUY_STRADDLE", 200)}

\* The response's dte on day now.
Dte(response, now) ==
    IF response.expiration = None THEN 0 ELSE Max(response.expiration - now, 0)

SkipPosition(pos) ==
    pos.action = "WAIT" \/ pos.strike = 0 \/ pos.option_type = "-"

build_directional_trade(pos, response) ==
    [trade_type |-> "directional", entry_premium |-> response.premium,
     option_type |-> pos.option_type, strike |-> pos.strike,
     expiry_date |-> response.expiration, target_price |-> pos.target_price,
     stop_loss_pct |-> pos.stop_loss_pct, max_hold_days |-> pos.max_hold_days,
     lower_breakeven |-> None]

build_straddle_trade(response, now) ==
    LET dte == Dte(response, now)
    IN  [trade_type |-> "straddle", entry_premium |-> response.premium,
         option_type |-> "STRADDLE", strike |-> 100,
         expiry_date |-> response.expiration, target_price |-> 110,
         stop_loss_pct |-> 50,
         max_hold_days |-> IF dte # 0 THEN Max(dte - 2, 1) ELSE DEFAULT_MAX_HOLD_DAYS,
         lower_breakeven |-> 95]

\* The loop over directional.positions from position k on; raised is TRUE
\* when building a trade hits the missing "ticker" key.
RECURSIVE OpenPositions(_, _, _, _, _)
OpenPositions(conn, ticker, response, k, now) ==
    IF k > Len(response.positions) THEN [conn |-> conn, raised |-> FALSE]
    ELSE LET pos == response.positions[k]
             trade == build_directional_trade(pos, response)
         IN  IF SkipPosition(pos)
             THEN OpenPositions(conn, ticker, response, k + 1, now)
             ELSE IF ~response.has_ticker THEN [conn |-> conn, raised |-> TRUE]
             ELSE IF has_open_trade(conn.trades, ticker, trade.strike,
                                    trade.option_type, trade.expiry_date)
             THEN OpenPositions(conn, ticker, response, k + 1, now)
             ELSE OpenPositions(insert_trade(conn, ticker, trade, now),
                                ticker, response, k + 1, now)

\* scan_ticker after a response arrived and insert_scan took the write lock.
scan_ticker(conn, ticker, response, now) ==
    LET opened == OpenPositions(conn, ticker, response, 1, now)
        straddle == build_straddle_trade(response, now)
    IN  IF opened.raised THEN opened
        ELSE IF response.verdict # "BUY_STRADDLE" THEN opened
        ELSE IF ~response.has_ticker THEN [conn |-> opened.conn, raised |-> TRUE]
        ELSE IF has_open_trade(opened.conn.trades, ticker, straddle.strike,
                               straddle.option_type, straddle.expiry_date)
        THEN opened
        ELSE [conn |-> insert_trade(opened.conn, ticker, straddle, now),
              raised |-> FALSE]

\* python -m papertrader scan: scan_watchlist opens its connection.
ScanWatchlist(p) ==
    /\ p \in Scanners
    /\ pc[p] = "idle"
    /\ args.runs < MaxRuns
    /\ pc' = [pc EXCEPT ![p] = "scan_ticker"]
    /\ ret' = [ret EXCEPT ![p] = [Idle EXCEPT !.i = 1]]
    /\ args' = [args EXCEPT !.runs = @ + 1]

\* One pass of the loop in scan_watchlist: scan_ticker for ticker i inside
\* the try.  "none" is an empty response, "error" an exception that the
\* except clause logs, "scanned" a scan_ticker that returned.
ScanTicker(p) ==
    /\ p \in Scanners
    /\ pc[p] = "scan_ticker"
    /\ \E response \in Responses(Watchlist[ret[p].i]) :
          /\ Len(scan_ticker(View(p), Watchlist[ret[p].i], response, args.now).conn.trades)
                 <= MaxTrades
          /\ LET i == ret[p].i
                 done == scan_ticker(View(p), Watchlist[i], response, args.now)
                 outcome == IF response = NoResponse THEN "none"
                            ELSE IF Locked(p) \/ done.raised THEN "error"
                            ELSE "scanned"
                 writes == response # NoResponse /\ ~Locked(p)
             IN  /\ ret' = [ret EXCEPT ![p].results = Append(@, outcome),
                                       ![p].i = i + 1,
                                       ![p].conn = IF writes THEN done.conn ELSE @]
                 /\ args' = [args EXCEPT !.lock = IF writes THEN p ELSE @]
                 /\ pc' = [pc EXCEPT ![p] = IF i = Len(Watchlist) THEN "commit"
                                            ELSE "scan_ticker"]

\* The end of "with db.get_conn() as conn": conn.commit() publishes the
\* transaction and releases the write lock.
Commit(p) ==
    /\ pc[p] = "commit"
    /\ args' = IF InTransaction(p)
               THEN [args EXCEPT !.trades = ret[p].conn.trades,
                                 !.price_checks = ret[p].conn.price_checks,
                                 !.lock = NoLock]
               ELSE args
    /\ pc' = [pc EXCEPT ![p] = "idle"]
    /\ ret' = [ret EXCEPT ![p] = Idle]

(* monitor *)

CheckSpots == {None, 100, 105}

CheckPremiums == {None, 100, 300}

\* mid is the chain's mid-price for the contract, None when it has none.
get_current_premium(trade, mid) ==
    IF trade.expiry_date = None \/ trade.strike = 0 THEN None ELSE mid

_check_expiry(trade, now) ==
    trade.expiry_date # None /\ now >= trade.expiry_date

_check_target(trade, spot) ==
    IF trade.target_price = None THEN FALSE
    ELSE IF trade.option_type = "CALL" THEN spot >= trade.target_price
    ELSE IF trade.option_type = "PUT" THEN spot <= trade.target_price
    ELSE IF trade.option_type \in {"STRADDLE", "STRANGLE"}
    THEN \/ trade.target_price # 0 /\ spot >= trade.target_price
         \/ trade.lower_breakeven \notin {None, 0} /\ spot <= trade.lower_breakeven
    ELSE FALSE

\* loss_pct >= stop_pct with loss_pct = (entry - current) / entry * 100.
_check_stop(trade, current_premium) ==
    IF trade.entry_premium \in {None, 0} \/ current_premium \in {None, 0}
       \/ trade.entry_premium <= 0
    THEN FALSE
    ELSE (trade.entry_premium - current_premium) * 100
             >= trade.stop_loss_pct * trade.entry_premium

_check_time_limit(trade, now) ==
    IF trade.max_hold_days \in {None, 0} THEN FALSE
    ELSE now - trade.entry_time >= trade.max_hold_days

\* An exit chain that tests the target before the expiry.
ExitReasonTargetFirst(trade, spot, current_premium, now) ==
    IF _check_target(trade, spot) THEN "TARGET"
    ELSE IF _check_expiry(trade, now) THEN "EXPIRY"
    ELSE IF _check_stop(trade, current_premium) THEN "STOP"
    ELSE IF _check_time_limit(trade, now) THEN "TIME_LIMIT"
    ELSE ""

\* The if / elif chain of check_trade; "" is exit_reason None.
ExitReason(trade, spot, current_premium, now) ==
    IF _check_expiry(trade, now) THEN "EXPIRY"
    ELSE IF _check_target(trade, spot) THEN "TARGET"
    ELSE IF _check_stop(trade, current_premium) THEN "STOP"
    ELSE IF _check_time_limit(trade, now) THEN "TIME_LIMIT"
    ELSE ""

\* check_trade on a connection that can write, for an available spot.
check_trade(conn, trade, spot, current_premium, now) ==
    LET checked == insert_price_check(conn, trade.id, spot)
        exit_reason == ExitReason(trade, spot, current_premium, now)
    IN  IF exit_reason # ""
        THEN [conn |-> close_trade(checked, trade.id, exit_reason),
              reason |-> exit_reason]
        ELSE [conn |-> checked, reason |-> "OPEN"]

\* python -m papertrader check: check_all_open reads the open trades; with
\* none it returns at once.
CheckAllOpen(p) ==
    /\ p \in Monitors
    /\ pc[p] = "idle"
    /\ args.runs < MaxRuns
    /\ LET open_trades == get_open_trades(View(p))
       IN  /\ pc' = [pc EXCEPT ![p] = IF open_trades = << >> THEN "commit"
                                      ELSE "check_trade"]
           /\ ret' = [ret EXCEPT ![p] = [Idle EXCEPT !.i = 1,
                                                     !.open_trades = open_trades]]
    /\ args' = [args EXCEPT !.runs = @ + 1]

\* One pass of the loop in check_all_open for the i-th trade read at the
\* start: the strike-IV snapshot (snap_spot is the first spot lookup, quoted
\* whether a quote came back), then check_trade with its own spot lookup.
\* A write while another connection holds the lock raises, and the except
\* clause records "ERROR".  The failed write leaves its BEGIN open, so that a
\* later SELECT of the cycle pins a read snapshot; once another connection
\* has committed, a write on that snapshot raises as well (stale).
CheckTrade(p) ==
    /\ p \in Monitors
    /\ pc[p] = "check_trade"
    /\ \E snap_spot \in {None, 100}, quoted \in BOOLEAN, spot \in CheckSpots, mid \in CheckPremiums, stale \in BOOLEAN :
          /\ snap_spot = None => ~quoted
          /\ stale => /\ ~InTransaction(p) /\ ~Locked(p)
                      /\ \E k \in 1..Len(ret[p].results) : ret[p].results[k] = "ERROR"
          /\ LET i == ret[p].i
                 trade == ret[p].open_trades[i]
                 key == <<trade.ticker, trade.expiry_date>>
                 snaps == snap_spot # None /\ key \notin ret[p].snap_done
                 snap_writes == snaps /\ trade.expiry_date # None /\ quoted
                 snap_raised == snap_writes /\ (Locked(p) \/ stale)
                 checks == ~snap_raised /\ spot # None
                 raised == snap_raised \/ (checks /\ (Locked(p) \/ stale))
                 writes == ~raised /\ (snap_writes \/ checks)
                 current_premium == get_current_premium(trade, mid)
                 checked == check_trade(View(p), trade, spot, current_premium, args.now)
                 result == IF raised THEN "ERROR"
                           ELSE IF checks THEN checked.reason ELSE "OPEN"
             IN  /\ ret' = [ret EXCEPT
                       ![p].results = Append(@, result),
                       ![p].i = i + 1,
                       ![p].snap_done = IF snaps /\ ~snap_raised THEN @ \cup {key} ELSE @,
                       ![p].spot = IF snap_raised THEN None ELSE spot,
                       ![p].current_premium = IF raised \/ ~checks THEN None
                                              ELSE current_premium,
                       ![p].conn = IF ~writes THEN @
                                   ELSE IF checks THEN checked.conn ELSE View(p)]
                 /\ args' = [args EXCEPT !.lock = IF writes THEN p ELSE @]
                 /\ pc' = [pc EXCEPT ![p] = IF i = Len(ret[p].open_trades) THEN "commit"
                                            ELSE "check_trade"]

\* A day passes.
Tick ==
    /\ args.now < LastDay
    /\ args' = [args EXCEPT !.now = @ + 1]
    /\ UNCHANGED <<pc, ret>>

\* The database an earlier scan of SPY on day 0 left behind.
ScannedBefore ==
    scan_ticker(NoTables, "SPY",
                Response(TRUE, ExpiryDay, <<BuyCall, BuyCall>>, "AVOID", 200), 0).conn

\* A new database or one with an open trade, on day 0, and the runs that
\* cron or a user may start.
InitRuns(procs) ==
    /\ pc = [p \in procs |-> "idle"]
    /\ ret = [p \in procs |-> Idle]
    /\ \E conn \in {NoTables, ScannedBefore} :
          args = [trades |-> conn.trades, price_checks |-> conn.price_checks,
                  lock |-> NoLock, now |-> 0, runs |-> 0]

NextPaper ==
    \/ \E p \in DOMAIN pc : ScanWatchlist(p)
    \/ \E p \in DOMAIN pc : ScanTicker(p)
    \/ \E p \in DOMAIN pc : CheckAllOpen(p)
    \/ \E p \in DOMAIN pc : CheckTrade(p)
    \/ \E p \in DOMAIN pc : Commit(p)
    \/ Tick

\* Two scans and a check that may overlap.
InitScanner == InitRuns(Scanners \cup {"check_1"})

SpecScanner == InitScanner /\ [][NextPaper]_vars

\* Two checks and a scan that may overlap.
InitMonitor == InitRuns(Monitors \cup {"scan_1"})

SpecMonitor == InitMonitor /\ [][NextPaper]_vars


----------------------------------------------------------------------------
(* Paper-trade lifecycle                                                   *)

C28_Order == <<"EXPIRY", "TARGET", "STOP", "TIME_LIMIT">>

\* The exit conditions that hold for a trade.
C28_Holding(trade, spot, current_premium, now) ==
    {r \in {"EXPIRY"} : trade.expiry_date # None /\ now >= trade.expiry_date}
    \cup {r \in {"TARGET"} : _check_target(trade, spot)}
    \cup {r \in {"STOP"} : _check_stop(trade, current_premium)}
    \cup {r \in {"TIME_LIMIT"} : _check_time_limit(trade, now)}

\* The first of the holding conditions in the fixed order.
C28_First(holding) ==
    C28_Order[CHOOSE k \in 1..4 : /\ C28_Order[k] \in holding
                                  /\ \A j \in 1..(k - 1) : C28_Order[j] \notin holding]

\* The rows other than row id are the same in both tables.
C28_OthersUnchanged(before, after, id) ==
    /\ Len(after) = Len(before)
    /\ \A k \in 1..Len(before) : k # id => after[k] = before[k]

\* A pass of the monitor's loop by p, on the trade it read at position i.
C28_Checks(p) == p \in Monitors /\ pc[p] = "check_trade" /\ ret'[p].i = ret[p].i + 1

\* check_trade on an OPEN trade with a spot: one price check, then the trade
\* is closed with the first holding reason, or left open when none holds.
C28_CheckedWithSpot(p) ==
    LET trade == ret[p].open_trades[ret[p].i]
        before == View(p)
        after == ret'[p].conn
        holding == C28_Holding(trade, ret'[p].spot, ret'[p].current_premium, args.now)
        result == ret'[p].results[Len(ret'[p].results)]
    IN  /\ after.price_checks = Append(before.price_checks, [trade_id |-> trade.id])
        /\ C28_OthersUnchanged(before.trades, after.trades, trade.id)
        /\ IF holding = {}
           THEN /\ after.trades[trade.id] = before.trades[trade.id]
                /\ result = "OPEN"
           ELSE /\ after.trades[trade.id] =
                       [before.trades[trade.id] EXCEPT !.status = "CLOSED",
                                                       !.exit_reason = C28_First(holding)]
                /\ result = C28_First(holding)

\* Without a spot, or when the pass fails, no table row changes.
C28_Unchecked(p) ==
    /\ View(p)'.trades = View(p).trades
    /\ View(p)'.price_checks = View(p).price_checks
    /\ ret'[p].results[Len(ret'[p].results)] \in {"OPEN", "ERROR"}

C28_CheckStep(p) ==
    LET trade == ret[p].open_trades[ret[p].i]
        result == ret'[p].results[Len(ret'[p].results)]
    IN  C28_Checks(p) =>
            IF ret'[p].spot # None /\ result # "ERROR"
            THEN View(p).trades[trade.id].status = "OPEN" => C28_CheckedWithSpot(p)
            ELSE C28_Unchecked(p)

\* A check cycle selects exactly the trades that are OPEN when it starts.
C28_Selects(p) ==
    (p \in Monitors /\ pc[p] = "idle" /\ pc'[p] # "idle") =>
        /\ \A k \in 1..Len(ret'[p].open_trades) :
               args.trades[ret'[p].open_trades[k].id].status = "OPEN"
        /\ \A k \in 1..Len(args.trades) :
               args.trades[k].status = "OPEN" =>
                   \E j \in 1..Len(ret'[p].open_trades) : ret'[p].open_trades[j].id = k

\* Rows are never removed, and a CLOSED row stays CLOSED.
C28_StaysClosed ==
    /\ Len(args'.trades) >= Len(args.trades)
    /\ \A k \in 1..Len(args.trades) :
           /\ args.trades[k].status \in {"OPEN", "CLOSED"}
           /\ args.trades[k].status = "CLOSED" => args'.trades[k].status = "CLOSED"

\* A cycle touches no trade other than the one selected trade it is checking.
C28_OnlySelected(p) ==
    (C28_Checks(p) /\ InTransaction(p)') =>
        C28_OthersUnchanged(View(p).trades, ret'[p].conn.trades,
                            ret[p].open_trades[ret[p].i].id)

C28_Step ==
    /\ C28_StaysClosed
    /\ \A p \in DOMAIN pc : C28_CheckStep(p) /\ C28_Selects(p) /\ C28_OnlySelected(p)

C28_Last(p, reason, holding) ==
    /\ p \in Monitors
    /\ ret[p].results # << >>
    /\ ret[p].results[Len(ret[p].results)] = reason
    /\ ret[p].spot # None
    /\ LET trade == ret[p].open_trades[ret[p].i - 1]
       IN  /\ holding \subseteq C28_Holding(trade, ret[p].spot, ret[p].current_premium, args.now)
           /\ ret[p].conn.trades[trade.id].status = "CLOSED"
           /\ ret[p].conn.trades[trade.id].exit_reason = reason
           /\ \E k \in 1..Len(ret[p].conn.price_checks) :
                  ret[p].conn.price_checks[k].trade_id = trade.id

C28_WitnessTarget == \E p \in DOMAIN pc : C28_Last(p, "TARGET", {"TARGET", "STOP", "TIME_LIMIT"})

C28_WitnessStop == \E p \in DOMAIN pc : C28_Last(p, "STOP", {"STOP", "TIME_LIMIT"})

C28_WitnessTimeLimit == \E p \in DOMAIN pc : C28_Last(p, "TIME_LIMIT", {"TIME_LIMIT"})

\* A pass without a spot: the trade stays open and has no price check.
C28_WitnessNoSpot ==
    \E p \in DOMAIN pc :
        /\ p \in Monitors /\ ret[p].results = <<"OPEN">> /\ ret[p].spot = None
        /\ View(p).price_checks = << >>
        /\ View(p).trades[ret[p].open_trades[1].id].status = "OPEN"

\* A pass with a spot and no exit condition: a price check and an open trade.
C28_WitnessStillOpen ==
    \E p \in DOMAIN pc :
        /\ p \in Monitors /\ ret[p].results = <<"OPEN">> /\ ret[p].spot # None
        /\ Len(ret[p].conn.price_checks) = 1
        /\ ret[p].conn.trades[ret[p].open_trades[1].id].status = "OPEN"

\* A later cycle that finds only a CLOSED trade and selects nothing.
C28_WitnessLaterCycle ==
    \E p \in DOMAIN pc :
        /\ p \in Monitors /\ pc[p] = "commit" /\ ret[p].open_trades = << >>
        /\ args.trades # << >>
        /\ \A k \in 1..Len(args.trades) : args.trades[k].status = "CLOSED"

\* Two overlapping cycles: one closes a trade the other had already selected,
\* and the other closes it again with another reason.
C28_OverlapRewrites ==
    \E p \in DOMAIN pc :
        /\ p \in Monitors /\ InTransaction(p)
        /\ \E k \in 1..Len(args.trades) :
               /\ args.trades[k].status = "CLOSED"
               /\ ret[p].conn.trades[k].status = "CLOSED"
               /\ ret[p].conn.trades[k].exit_reason # args.trades[k].exit_reason

----------------------------------------------------------------------------
(* One open trade per contract                                             *)

\* The committed database and the tables of every open transaction.
C29_Databases == {Committed} \cup {ret[p].conn : p \in {q \in DOMAIN pc : InTransaction(q)}}

\* Two rows for one contract with an expiry date.
C29_SameContract(a, b) ==
    /\ a.ticker = b.ticker /\ a.strike = b.strike /\ a.option_type = b.option_type
    /\ a.expiry_date # None /\ a.expiry_date = b.expiry_date

C29_OpenTwice(trades) ==
    \E j, k \in 1..Len(trades) :
        /\ j < k /\ C29_SameContract(trades[j], trades[k])
        /\ trades[j].status = "OPEN" /\ trades[k].status = "OPEN"

\* A scan that reached its commit has gone through every ticker.
C29_AllTickersScanned ==
    \A p \in DOMAIN pc :
        (p \in Scanners /\ pc[p] = "commit") => Len(ret[p].results) = Len(Watchlist)

\* C29: in the database and in every transaction, under any interleaving of
\* scanner and monitor runs, no contract with an expiry date has two OPEN
\* trades; and a scan goes through all its tickers whatever failed on the way.
C29_OneOpenPerContract ==
    /\ \A db \in C29_Databases : ~C29_OpenTwice(db.trades)
    /\ C29_AllTickersScanned

\* A scanner step adds only OPEN rows for contracts whose earlier rows are
\* all CLOSED, and after a failure on one ticker it moves on to the next.
C29_ScanStep(p) ==
    (p \in Scanners /\ pc[p] = "scan_ticker") =>
        LET before == View(p).trades
            after == View(p)'.trades
        IN  /\ ret'[p].i = ret[p].i + 1 =>
                /\ Len(ret'[p].results) = ret[p].i
                /\ pc'[p] = IF ret[p].i < Len(Watchlist) THEN "scan_ticker" ELSE "commit"
            /\ (InTransaction(p)' /\ ret'[p].i = ret[p].i + 1) =>
                /\ Len(after) >= Len(before)
                /\ \A k \in 1..Len(before) : after[k] = before[k]
                /\ \A k \in (Len(before) + 1)..Len(after) :
                       /\ after[k].status = "OPEN"
                       /\ after[k].ticker = Watchlist[ret[p].i]
                       /\ \A j \in 1..(k - 1) :
                              C29_SameContract(after[j], after[k]) => after[j].status = "CLOSED"

C29_OpensOnlyWithoutOpen == [][\A p \in DOMAIN pc : C29_ScanStep(p)]_vars

\* A contract that was closed and opened again.
C29_Witness ==
    \E j, k \in 1..Len(args.trades) :
        /\ j < k /\ C29_SameContract(args.trades[j], args.trades[k])
        /\ args.trades[j].status = "CLOSED" /\ args.trades[k].status = "OPEN"

\* One scan with two positions for the same contract opened one trade.
C29_WitnessOneScan ==
    \E p \in DOMAIN pc :
        /\ p \in Scanners /\ InTransaction(p) /\ ret[p].results = <<"scanned">>
        /\ args.trades = << >> /\ Len(ret[p].conn.trades) = 1
        /\ ret[p].conn.trades[1].option_type = "CALL"
        /\ ret[p].conn.trades[1].expiry_date # None

\* A scan that found the contract open and added nothing.
C29_WitnessSkipped ==
    \E p \in DOMAIN pc :
        /\ p \in Scanners /\ InTransaction(p) /\ ret[p].results = <<"scanned">>
        /\ Len(args.trades) = 1 /\ args.trades[1].status = "OPEN"
        /\ ret[p].conn.trades = args.trades

\* A failure on the first ticker, and a trade opened for the second.
C29_WitnessAfterFailure ==
    \E p \in DOMAIN pc :
        /\ p \in Scanners /\ ret[p].results = <<"error", "scanned">>
        /\ InTransaction(p)
        /\ \E k \in 1..Len(ret[p].conn.trades) :
               /\ ret[p].conn.trades[k].ticker = "QQQ"
               /\ k > Len(args.trades)

\* A scan that met the other scan's write lock on the first ticker and wrote
\* on the second, after the other's commit.
C29_WitnessLocked ==
    \E p, q \in DOMAIN pc :
        /\ p \in Scanners /\ q \in Scanners /\ p # q
        /\ ret[p].results = <<"error", "scanned">> /\ InTransaction(p)
        /\ pc[q] = "idle"
        /\ Len(args.trades) = 1 /\ Len(ret[p].conn.trades) = 2

\* Without an expiry date the probe never matches: the contract opens twice.
C29_NullExpiryTwice ==
    \E j, k \in 1..Len(args.trades) :
        /\ j < k
        /\ args.trades[j].ticker = args.trades[k].ticker
        /\ args.trades[j].option_type = args.trades[k].option_type
        /\ args.trades[j].strike = args.trades[k].strike
        /\ args.trades[j].expiry_date = None /\ args.trades[k].expiry_date = None
        /\ args.trades[j].status = "OPEN" /\ args.trades[k].status = "OPEN"

----------------------------------------------------------------------------
(* straddle catalyst sub-score on the autocorrelation detector's readings  *)

\* Days of lag-1 values in a detector reading.
MaxCatalystDays == 5

\* Lag-1 autocorrelations (1e-4): dampened, amplified, at the squeeze ceiling.
CatalystLagValues == {-800, 800, 1000}

CatalystDayLists == UNION {[1..n -> CatalystLagValues] : n \in 1..MaxCatalystDays}

CatalystSei == {0, 100000, 200000}

CatalystWidths == {0, 150, 250, 450}

\* SHORT_GAMMA_CEILING * 0.85 (1e-4)
SqueezeCeiling == 935

\* max(lag1_values[-3:]) if len(lag1_values) >= 3 else max(lag1_values)
MaxRecent(lag1_values) ==
    LET n == Len(lag1_values)
        recent == {lag1_values[i] : i \in Max(1, n - 2)..n}
    IN  CHOOSE v \in recent : \A w \in recent : w <= v

\* The dict scan_ticker_acf returns, with the squeeze-ceiling flag.
ScanTickerAcfReading(lag1_values, sei) ==
    ScanTickerAcf(lag1_values, [sei |-> sei])
        @@ [at_squeeze_ceiling |-> MaxRecent(lag1_values) >= SqueezeCeiling]

\* analyze_straddles scores the reading main.dealer_map got from the detector.
InitCatalyst ==
    /\ pc = "_score_catalyst"
    /\ args \in {[phase |-> ph, lag1_values |-> d, acf |-> ScanTickerAcfReading(d, s),
                  ch_width |-> w] :
                    ph \in StraddlePhases, d \in CatalystDayLists,
                    s \in CatalystSei, w \in CatalystWidths}
    /\ ret = NoResult

CallScoreCatalyst ==
    /\ pc = "_score_catalyst"
    /\ pc' = "_score_catalyst.return"
    /\ ret' = [score |-> score_catalyst(args.phase, args.acf, args.ch_width)]
    /\ UNCHANGED args

NextCatalyst == CallScoreCatalyst

SpecCatalyst == InitCatalyst /\ [][NextCatalyst]_vars

\* Stability labels the detector emits.
C30_Emitted == {ScanTickerAcfReading(d, 0).stability : d \in CatalystDayLists}

\* Labels the detector emits or the sub-score tests.
C30_Labels == C30_Emitted \cup {"UNSTABLE", "SHIFTING"}

C30_Relabelled(acf, label) == [acf EXCEPT !.stability = label]

\* A reading of one quiet day, given a label.
C30_Labelled(label) == C30_Relabelled(ScanTickerAcfReading(<<-800>>, 0), label)

\* The sub-score awards its instability bonus for a label: the reading scores
\* more with it than with some other label.
C30_Bonus(label) ==
    \E other \in C30_Labels :
        score_catalyst([regime |-> "LAMINAR"], C30_Labelled(label), 0)
          > score_catalyst([regime |-> "LAMINAR"], C30_Labelled(other), 0)

C30_BonusLabels == {label \in C30_Labels : C30_Bonus(label)}

C30_BonusLabelsEmitted == C30_BonusLabels \subseteq C30_Emitted

\* Day-to-day sign flips of a reading's lag-1 values.
C30_Transitions(lag1_values) ==
    Cardinality({i \in 2..Len(lag1_values) :
                   (lag1_values[i - 1] > 0) # (lag1_values[i] > 0)})

\* A flip rate of 40% or more, against one under 10%.
C30_HighFlipRate == 100 * C30_Transitions(args.lag1_values) >= 40 * Len(args.lag1_values)

C30_LowFlipScore ==
    score_catalyst(args.phase, C30_Relabelled(args.acf, "ROCK_SOLID"), args.ch_width)

C30_BonusOnlyForEmitted == pc = "_score_catalyst.return" => C30_BonusLabelsEmitted

\* The second half alone.
C30_HighFlipScoresHigher ==
    (pc = "_score_catalyst.return" /\ C30_HighFlipRate /\ ret.score < 25)
        => ret.score > C30_LowFlipScore

\* What the code does: the detector's four labels are the only ones emitted,
\* the label follows the flip rate, and the score of a detector reading does
\* not depend on its label.
C30_StabilityIgnored ==
    pc = "_score_catalyst.return" =>
        /\ C30_Emitted = {"ROCK_SOLID", "STABLE", "CONTESTED", "UNRELIABLE"}
        /\ args.acf.stability \in C30_Emitted
        /\ C30_HighFlipRate <=> args.acf.stability = "UNRELIABLE"
        /\ \A label \in C30_Emitted :
              ret.score = score_catalyst(args.phase, C30_Relabelled(args.acf, label),
                                         args.ch_width)
        /\ C30_BonusLabels = {"UNSTABLE", "SHIFTING"}

\* An UNRELIABLE detector reading, unclamped, scored like a ROCK_SOLID one.
C30_UnreliableUnrewarded ==
    /\ pc = "_score_catalyst.return"
    /\ args.acf.stability = "UNRELIABLE"
    /\ C30_HighFlipRate
    /\ ret.score < 25
    /\ ret.score = C30_LowFlipScore

\* A reading of each other label, and one clamped at 25.
C30_RockSolidReading == pc = "_score_catalyst.return" /\ args.acf.stability = "ROCK_SOLID"

C30_StableReading == pc = "_score_catalyst.return" /\ args.acf.stability = "STABLE"

C30_ContestedReading == pc = "_score_catalyst.return" /\ args.acf.stability = "CONTESTED"

C30_ClampedReading ==
    pc = "_score_catalyst.return" /\ args.acf.stability = "UNRELIABLE" /\ ret.score = 25

====
